---- MODULE Spec2Model ----
(***************************************************************************)
(* Model of the staged LightningPaymentFlowBuilder                         *)
(* (src/src/domain/payments/payment-flow-builder.ts) and of the account    *)
(* and two-factor limits checkers                                          *)
(* (src/src/domain/accounts/new-limits-checker.ts).                        *)
(*                                                                         *)
(* An optional value (undefined / null in the source) is a sequence of     *)
(* length 0 or 1: None is undefined, Some(v) is the value v.  A payment    *)
(* amount object {amount, currency} is Some(amount); the currency is given *)
(* by the field that holds it.  Pass-through text fields of the builder    *)
(* state (description, recipient username / user id / pubkey) carry no     *)
(* control flow and are left out of the state record.                      *)
(***************************************************************************)
EXTENDS Integers, Sequences, FiniteSets, TLC

VARIABLES
    builder,          \* the stage object the caller currently holds
    lastCall,         \* the last operation invoked and its arguments
    receiver,         \* the stage the last call was invoked on, as that call left it
    initial,          \* the call on the initial stage that started the chain
    result,           \* value returned by the last terminal / accessor call
    calls,            \* rate-source invocations of the current conversion, in order
    zeroAmountValid,  \* whether the amount validators accept 0
    limits,           \* inputs and outcome of the last limits check
    ratio             \* inputs and outcome of the last price-ratio conversion

vars == <<builder, lastCall, receiver, initial, result, calls, zeroAmountValid, limits, ratio>>

----------------------------------------------------------------------------
(* Bounds *)

MaxAmount == 2
MaxRate == 2
MaxFee == 2
MaxClock == 1

----------------------------------------------------------------------------
(* Optional values *)

None == <<>>
Some(v) == <<v>>
IsSome(x) == x # <<>>
Val(x) == x[1]

\* JavaScript `a || b` on optional objects (an object is always truthy)
OrElse(a, b) == IF IsSome(a) THEN a ELSE b

\* JavaScript truthiness of an optional number / bigint: 0 is falsy
TruthyNumber(x) == IsSome(x) /\ Val(x) # 0

----------------------------------------------------------------------------
(* Domain values *)

Btc == "BTC"
Usd == "USD"
IntraLedger == "IntraLedger"
Lightning == "Lightning"

LocalNodeIds == {"pkLocal"}
FlaggedPubkeys == {"pkFlagged"}
Destinations == {None, Some("pkLocal"), Some("pkRemote")}
HopPubkeys == {"pkFlagged", "pkHop"}

Invoices ==
    [destination : Destinations,
     paymentAmount : {None} \cup {Some(n) : n \in 0..MaxAmount},
     paymentHash : {"paymentHash"},
     finalHops : SUBSET HopPubkeys]

\* invoices handed to withNoAmountInvoice: without an amount, or with one it ignores
NoAmountInvoices == {invoice \in Invoices : invoice.paymentAmount \in {None, Some(1)}}

UncheckedAmounts == (-1)..MaxAmount

SenderWallets ==
    {[id |-> "w1", currency |-> Btc, accountId |-> "a1"],
     [id |-> "w2", currency |-> Usd, accountId |-> "a1"]}

RecipientWallets ==
    [id : {"w1", "w2", "w3"},
     currency : {Btc, Usd},
     accountId : {"a1", "a2"},
     usdPaymentAmount : {None} \cup {Some(n) : n \in 1..MaxAmount}]

RawRoutes == {[fee |-> None]} \cup {[fee |-> Some(n)] : n \in 0..MaxFee}
RateResponses == {None} \cup {Some(n) : n \in 0..MaxRate}
Clock == 1..MaxClock

----------------------------------------------------------------------------
(* Errors *)

BuilderStateError(msg) == "InvalidLightningPaymentFlowBuilderStateError: " \o msg
SelfPaymentError == "SelfPaymentError"
ValidationError == "ValidationError"
DealerPriceServiceError == "DealerPriceServiceError"
InvalidZeroAmountPriceRatioInputError == "InvalidZeroAmountPriceRatioInputError"
FeeError == "FeeError"
InvalidLightningPaymentFlowStateError == "InvalidLightningPaymentFlowStateError"

----------------------------------------------------------------------------
(* Collaborators of the builder *)

divCeil(a, b) == (a + b - 1) \div b

\* PriceRatio({usd, btc}): fails unless both amounts are strictly positive
PriceRatio(usd, btc) ==
    IF usd <= 0 \/ btc <= 0
    THEN [ok |-> FALSE, usd |-> 0, btc |-> 0]
    ELSE [ok |-> TRUE, usd |-> usd, btc |-> btc]

convertFromBtc(r, btcAmount) == (btcAmount * r.usd) \div r.btc
convertFromUsd(r, usdAmount) == (usdAmount * r.btc) \div r.usd
convertFromBtcToCeil_Mutant(r, btcAmount) == (btcAmount * r.usd) \div r.btc
convertFromBtcToCeil(r, btcAmount) == divCeil(btcAmount * r.usd, r.btc)

\* LnFees()
intraLedgerFees == [btc |-> 0, usd |-> 0]
maxProtocolAndBankFee(amount) == divCeil(amount, 2)
feeFromRawRoute(rawRoute) == rawRoute.fee

\* checkedToBtcPaymentAmount / checkedToUsdPaymentAmount: None is a ValidationError
checkedToBtcPaymentAmount(amount) ==
    IF amount > 0 \/ (amount = 0 /\ zeroAmountValid) THEN Some(amount) ELSE None
checkedToUsdPaymentAmount(amount) ==
    IF amount > 0 \/ (amount = 0 /\ zeroAmountValid) THEN Some(amount) ELSE None

generateIntraLedgerHash == "intraLedgerHash"
parseFinalHopsFromInvoice(invoice) == invoice.finalHops

----------------------------------------------------------------------------
(* Builder state and stage values *)

EmptyState ==
    [settlementMethod |-> None,
     btcProtocolAndBankFee |-> None,
     usdProtocolAndBankFee |-> None,
     paymentInitiationMethod |-> None,
     paymentHash |-> None,
     intraLedgerHash |-> None,
     uncheckedAmount |-> None,
     btcPaymentAmount |-> None,
     usdPaymentAmount |-> None,
     inputAmount |-> None,
     skipProbeForDestination |-> None,
     senderWalletId |-> None,
     senderWalletCurrency |-> None,
     senderAccountId |-> None,
     recipientWalletId |-> None,
     recipientWalletCurrency |-> None,
     recipientAccountId |-> None,
     createdAt |-> None,
     outgoingNodePubkey |-> None,
     checkedRoute |-> None]

\* statePromise of LPFBWithConversion: not created, awaiting a rate source,
\* or settled with a state or an error
NoPromise ==
    [status |-> "none", source |-> "", fn |-> "", error |-> None, state |-> EmptyState]
PendingPromise(source, fn, s) ==
    [status |-> "pending", source |-> source, fn |-> fn, error |-> None, state |-> s]
ResolvedPromise(s) ==
    [status |-> "settled", source |-> "", fn |-> "", error |-> None, state |-> s]
FailedPromise(e) ==
    [status |-> "settled", source |-> "", fn |-> "", error |-> Some(e), state |-> EmptyState]

Stage(name, s) == [stage |-> name, state |-> s, error |-> None, promise |-> NoPromise]
Thrown == [stage |-> "Thrown", state |-> EmptyState, error |-> None, promise |-> NoPromise]

LPFBWithInvoice(s) == Stage("WithInvoice", s)
LPFBWithSenderWallet(s) == Stage("WithSenderWallet", s)
LPFBWithRecipientWallet(s) == Stage("WithRecipientWallet", s)
LPFBWithConversion(p) ==
    [stage |-> "WithConversion", state |-> EmptyState, error |-> None, promise |-> p]
LPFBWithError(e) ==
    [stage |-> "Error", state |-> EmptyState, error |-> Some(e), promise |-> NoPromise]

----------------------------------------------------------------------------
(* LightningPaymentFlowBuilder(config): the initial stage *)

settlementMethodFromDestination_Mutant(destination) ==
    LET settlementMethod ==
            IF destination = None
            THEN Lightning
            ELSE IF Val(destination) \in LocalNodeIds
                 THEN IntraLedger
                 ELSE Lightning
    IN  [settlementMethod |-> settlementMethod,
         btcProtocolAndBankFee |->
             IF settlementMethod = IntraLedger THEN Some(intraLedgerFees.btc) ELSE None,
         usdProtocolAndBankFee |->
             IF settlementMethod = IntraLedger THEN Some(intraLedgerFees.usd) ELSE None]

settlementMethodFromDestination(destination) ==
    LET settlementMethod ==
            IF destination = None
            THEN IntraLedger
            ELSE IF Val(destination) \in LocalNodeIds
                 THEN IntraLedger
                 ELSE Lightning
    IN  [settlementMethod |-> settlementMethod,
         btcProtocolAndBankFee |->
             IF settlementMethod = IntraLedger THEN Some(intraLedgerFees.btc) ELSE None,
         usdProtocolAndBankFee |->
             IF settlementMethod = IntraLedger THEN Some(intraLedgerFees.usd) ELSE None]

skipProbeFromInvoice_Mutant(invoice) ==
    parseFinalHopsFromInvoice(invoice) \subseteq FlaggedPubkeys

skipProbeFromInvoice(invoice) ==
    (parseFinalHopsFromInvoice(invoice) \cap FlaggedPubkeys) # {}

withInvoice_Mutant(invoice) ==
    LET sm == settlementMethodFromDestination(invoice.destination)
    IN  LPFBWithInvoice(
            [EmptyState EXCEPT
                !.settlementMethod = Some(sm.settlementMethod),
                !.btcProtocolAndBankFee = sm.btcProtocolAndBankFee,
                !.usdProtocolAndBankFee = sm.usdProtocolAndBankFee,
                !.paymentInitiationMethod = Some(Lightning),
                !.paymentHash = Some(invoice.paymentHash),
                !.btcPaymentAmount = invoice.paymentAmount,
                !.inputAmount = invoice.paymentAmount,
                !.skipProbeForDestination = Some(skipProbeFromInvoice(invoice))])

withInvoice(invoice) ==
    IF invoice.paymentAmount = None
    THEN LPFBWithError(BuilderStateError("withInvoice - paymentAmount missing"))
    ELSE LET sm == settlementMethodFromDestination(invoice.destination)
         IN  LPFBWithInvoice(
                 [EmptyState EXCEPT
                     !.settlementMethod = Some(sm.settlementMethod),
                     !.btcProtocolAndBankFee = sm.btcProtocolAndBankFee,
                     !.usdProtocolAndBankFee = sm.usdProtocolAndBankFee,
                     !.paymentInitiationMethod = Some(Lightning),
                     !.paymentHash = Some(invoice.paymentHash),
                     !.btcPaymentAmount = invoice.paymentAmount,
                     !.inputAmount = invoice.paymentAmount,
                     !.skipProbeForDestination = Some(skipProbeFromInvoice(invoice))])

withNoAmountInvoice(invoice, uncheckedAmount) ==
    LET sm == settlementMethodFromDestination(invoice.destination)
    IN  LPFBWithInvoice(
            [EmptyState EXCEPT
                !.settlementMethod = Some(sm.settlementMethod),
                !.btcProtocolAndBankFee = sm.btcProtocolAndBankFee,
                !.usdProtocolAndBankFee = sm.usdProtocolAndBankFee,
                !.paymentInitiationMethod = Some(Lightning),
                !.paymentHash = Some(invoice.paymentHash),
                !.uncheckedAmount = Some(uncheckedAmount),
                !.skipProbeForDestination = Some(skipProbeFromInvoice(invoice))])

withoutInvoice(uncheckedAmount) ==
    LET sm == settlementMethodFromDestination(None)
    IN  LPFBWithInvoice(
            [EmptyState EXCEPT
                !.settlementMethod = Some(sm.settlementMethod),
                !.btcProtocolAndBankFee = sm.btcProtocolAndBankFee,
                !.usdProtocolAndBankFee = sm.usdProtocolAndBankFee,
                !.paymentInitiationMethod = Some(IntraLedger),
                !.intraLedgerHash = Some(generateIntraLedgerHash),
                !.uncheckedAmount = Some(uncheckedAmount),
                !.skipProbeForDestination = Some(FALSE)])

----------------------------------------------------------------------------
(* LPFBWithInvoice *)

withSenderWallet_Mutant(state, senderWallet) ==
    LET withSender ==
            [state EXCEPT
                !.senderWalletId = Some(senderWallet.id),
                !.senderWalletCurrency = Some(senderWallet.currency),
                !.senderAccountId = Some(senderWallet.accountId)]
    IN  IF state.uncheckedAmount # None
        THEN IF senderWallet.currency = Btc
             THEN LET paymentAmount ==
                          checkedToBtcPaymentAmount(Val(state.uncheckedAmount))
                  IN  IF paymentAmount = None
                      THEN LPFBWithError(ValidationError)
                      ELSE LPFBWithSenderWallet(
                               [withSender EXCEPT
                                   !.btcPaymentAmount = paymentAmount,
                                   !.inputAmount = paymentAmount,
                                   !.btcProtocolAndBankFee =
                                       Some(maxProtocolAndBankFee(Val(paymentAmount)))])
             ELSE LET paymentAmount ==
                          checkedToUsdPaymentAmount(Val(state.uncheckedAmount))
                  IN  IF paymentAmount = None
                      THEN LPFBWithError(ValidationError)
                      ELSE LPFBWithSenderWallet(
                               [withSender EXCEPT
                                   !.usdPaymentAmount = paymentAmount,
                                   !.inputAmount = paymentAmount,
                                   !.usdProtocolAndBankFee =
                                       Some(maxProtocolAndBankFee(Val(paymentAmount)))])
        ELSE IF TruthyNumber(state.inputAmount) /\ IsSome(state.btcPaymentAmount)
             THEN LPFBWithSenderWallet(
                      [withSender EXCEPT
                          !.btcProtocolAndBankFee =
                              Some(maxProtocolAndBankFee(Val(state.btcPaymentAmount)))])
             ELSE Thrown

withSenderWallet_BtcMutant(state, senderWallet) ==
    LET withSender ==
            [state EXCEPT
                !.senderWalletId = Some(senderWallet.id),
                !.senderWalletCurrency = Some(senderWallet.currency),
                !.senderAccountId = Some(senderWallet.accountId)]
    IN  IF state.uncheckedAmount # None
        THEN IF senderWallet.currency \in {Btc, Usd}
             THEN LET paymentAmount ==
                          checkedToBtcPaymentAmount(Val(state.uncheckedAmount))
                  IN  IF paymentAmount = None
                      THEN LPFBWithError(ValidationError)
                      ELSE LPFBWithSenderWallet(
                               [withSender EXCEPT
                                   !.btcPaymentAmount = paymentAmount,
                                   !.inputAmount = paymentAmount,
                                   !.btcProtocolAndBankFee =
                                       OrElse(state.btcProtocolAndBankFee,
                                              Some(maxProtocolAndBankFee(Val(paymentAmount))))])
             ELSE LET paymentAmount ==
                          checkedToUsdPaymentAmount(Val(state.uncheckedAmount))
                  IN  IF paymentAmount = None
                      THEN LPFBWithError(ValidationError)
                      ELSE LPFBWithSenderWallet(
                               [withSender EXCEPT
                                   !.usdPaymentAmount = paymentAmount,
                                   !.inputAmount = paymentAmount,
                                   !.usdProtocolAndBankFee =
                                       OrElse(state.usdProtocolAndBankFee,
                                              Some(maxProtocolAndBankFee(Val(paymentAmount))))])
        ELSE IF TruthyNumber(state.inputAmount) /\ IsSome(state.btcPaymentAmount)
             THEN LPFBWithSenderWallet(
                      [withSender EXCEPT
                          !.btcProtocolAndBankFee =
                              OrElse(state.btcProtocolAndBankFee,
                                     Some(maxProtocolAndBankFee(Val(state.btcPaymentAmount))))])
             ELSE Thrown

withSenderWallet(state, senderWallet) ==
    LET withSender ==
            [state EXCEPT
                !.senderWalletId = Some(senderWallet.id),
                !.senderWalletCurrency = Some(senderWallet.currency),
                !.senderAccountId = Some(senderWallet.accountId)]
    IN  IF state.uncheckedAmount # None
        THEN IF senderWallet.currency = Btc
             THEN LET paymentAmount ==
                          checkedToBtcPaymentAmount(Val(state.uncheckedAmount))
                  IN  IF paymentAmount = None
                      THEN LPFBWithError(ValidationError)
                      ELSE LPFBWithSenderWallet(
                               [withSender EXCEPT
                                   !.btcPaymentAmount = paymentAmount,
                                   !.inputAmount = paymentAmount,
                                   !.btcProtocolAndBankFee =
                                       OrElse(state.btcProtocolAndBankFee,
                                              Some(maxProtocolAndBankFee(Val(paymentAmount))))])
             ELSE LET paymentAmount ==
                          checkedToUsdPaymentAmount(Val(state.uncheckedAmount))
                  IN  IF paymentAmount = None
                      THEN LPFBWithError(ValidationError)
                      ELSE LPFBWithSenderWallet(
                               [withSender EXCEPT
                                   !.usdPaymentAmount = paymentAmount,
                                   !.inputAmount = paymentAmount,
                                   !.usdProtocolAndBankFee =
                                       OrElse(state.usdProtocolAndBankFee,
                                              Some(maxProtocolAndBankFee(Val(paymentAmount))))])
        ELSE IF TruthyNumber(state.inputAmount) /\ IsSome(state.btcPaymentAmount)
             THEN LPFBWithSenderWallet(
                      [withSender EXCEPT
                          !.btcProtocolAndBankFee =
                              OrElse(state.btcProtocolAndBankFee,
                                     Some(maxProtocolAndBankFee(Val(state.btcPaymentAmount))))])
             ELSE Thrown

----------------------------------------------------------------------------
(* LPFBWithSenderWallet *)

withoutRecipientWallet_Mutant(state) == LPFBWithRecipientWallet(state)

withoutRecipientWallet(state) ==
    IF state.settlementMethod = Some(IntraLedger)
    THEN LPFBWithError(BuilderStateError(
             "withoutRecipientWallet called but settlementMethod is IntraLedger"))
    ELSE LPFBWithRecipientWallet(state)

withRecipientWallet_Mutant(state, recipient) ==
    IF /\ recipient.currency = Usd
       /\ IsSome(recipient.usdPaymentAmount) = TruthyNumber(state.uncheckedAmount)
    THEN LPFBWithError(BuilderStateError(
             "withRecipientWallet incorrect combination of usdPaymentAmount and uncheckedAmount"))
    ELSE IF Some(recipient.id) = state.senderWalletId
         THEN LPFBWithError(SelfPaymentError)
         ELSE LPFBWithRecipientWallet(
                  [state EXCEPT
                      !.recipientWalletId = Some(recipient.id),
                      !.recipientWalletCurrency = Some(recipient.currency),
                      !.recipientAccountId = Some(recipient.accountId),
                      !.usdPaymentAmount =
                          OrElse(recipient.usdPaymentAmount, state.usdPaymentAmount)])

withRecipientWallet_XorMutant(state, recipient) ==
    IF Some(recipient.id) = state.senderWalletId
    THEN LPFBWithError(SelfPaymentError)
    ELSE IF /\ recipient.currency = Usd
            /\ IsSome(recipient.usdPaymentAmount) # TruthyNumber(state.uncheckedAmount)
         THEN LPFBWithError(BuilderStateError(
                  "withRecipientWallet incorrect combination of usdPaymentAmount and uncheckedAmount"))
         ELSE LPFBWithRecipientWallet(
                  [state EXCEPT
                      !.recipientWalletId = Some(recipient.id),
                      !.recipientWalletCurrency = Some(recipient.currency),
                      !.recipientAccountId = Some(recipient.accountId),
                      !.usdPaymentAmount =
                          OrElse(recipient.usdPaymentAmount, state.usdPaymentAmount)])

withRecipientWallet(state, recipient) ==
    IF Some(recipient.id) = state.senderWalletId
    THEN LPFBWithError(SelfPaymentError)
    ELSE IF /\ recipient.currency = Usd
            /\ IsSome(recipient.usdPaymentAmount) = TruthyNumber(state.uncheckedAmount)
         THEN LPFBWithError(BuilderStateError(
                  "withRecipientWallet incorrect combination of usdPaymentAmount and uncheckedAmount"))
         ELSE LPFBWithRecipientWallet(
                  [state EXCEPT
                      !.recipientWalletId = Some(recipient.id),
                      !.recipientWalletCurrency = Some(recipient.currency),
                      !.recipientAccountId = Some(recipient.accountId),
                      !.usdPaymentAmount =
                          OrElse(recipient.usdPaymentAmount, state.usdPaymentAmount)])

LPFBWithSenderWallet_isIntraLedger(state) ==
    state.settlementMethod = Some(IntraLedger)

----------------------------------------------------------------------------
(* LPFBWithRecipientWallet *)

noConversionRequired_BtcMutant(state) ==
    \/ state.senderWalletCurrency = Some(Btc)
    \/ state.senderWalletCurrency = state.recipientWalletCurrency

noConversionRequired_Mutant(state) ==
    /\ state.senderWalletCurrency = Some(Btc)
    /\ state.settlementMethod = Some(Lightning)

noConversionRequired(state) ==
    \/ /\ state.senderWalletCurrency = Some(Btc)
       /\ state.settlementMethod = Some(Lightning)
    \/ state.senderWalletCurrency = state.recipientWalletCurrency

withConversion_Mutant(state, now) ==
    LET stateWithCreatedAt == [state EXCEPT !.createdAt = Some(now)]
        btcPaymentAmountKnown ==
            IsSome(state.btcPaymentAmount) /\ IsSome(state.btcProtocolAndBankFee)
        usdPaymentAmountKnown ==
            IsSome(state.usdPaymentAmount) /\ IsSome(state.usdProtocolAndBankFee)
        hedge ==
            IF state.senderWalletCurrency = Some(Btc) THEN "hedgeSellUsd" ELSE "hedgeBuyUsd"
    IN  IF noConversionRequired(state)
        THEN IF btcPaymentAmountKnown /\ usdPaymentAmountKnown
             THEN LPFBWithConversion(ResolvedPromise(stateWithCreatedAt))
             ELSE IF btcPaymentAmountKnown
                  THEN LPFBWithConversion(
                           PendingPromise("mid", "usdFromBtc", stateWithCreatedAt))
                  ELSE IF usdPaymentAmountKnown
                       THEN LPFBWithConversion(
                                PendingPromise("mid", "btcFromUsd", stateWithCreatedAt))
                       ELSE LPFBWithError(BuilderStateError(
                                "withConversion - btcPaymentAmount || btcProtocolAndBankFee not set"))
        ELSE IF btcPaymentAmountKnown
             THEN IF /\ state.recipientWalletCurrency = Some(Usd)
                     /\ usdPaymentAmountKnown
                  THEN LPFBWithConversion(ResolvedPromise(stateWithCreatedAt))
                  ELSE LPFBWithConversion(
                           PendingPromise(hedge, "usdFromBtc", stateWithCreatedAt))
             ELSE IF usdPaymentAmountKnown
                  THEN LPFBWithConversion(
                           PendingPromise(hedge, "btcFromUsd", stateWithCreatedAt))
                  ELSE LPFBWithError(BuilderStateError(
                           "withConversion - impossible withConversion state"))

withConversion(state, now) ==
    LET stateWithCreatedAt == [state EXCEPT !.createdAt = Some(now)]
        btcPaymentAmountKnown ==
            IsSome(state.btcPaymentAmount) /\ IsSome(state.btcProtocolAndBankFee)
        usdPaymentAmountKnown ==
            IsSome(state.usdPaymentAmount) /\ IsSome(state.usdProtocolAndBankFee)
        hedge ==
            IF state.senderWalletCurrency = Some(Btc) THEN "hedgeBuyUsd" ELSE "hedgeSellUsd"
    IN  IF noConversionRequired(state)
        THEN IF btcPaymentAmountKnown /\ usdPaymentAmountKnown
             THEN LPFBWithConversion(ResolvedPromise(stateWithCreatedAt))
             ELSE IF btcPaymentAmountKnown
                  THEN LPFBWithConversion(
                           PendingPromise("mid", "usdFromBtc", stateWithCreatedAt))
                  ELSE IF usdPaymentAmountKnown
                       THEN LPFBWithConversion(
                                PendingPromise("mid", "btcFromUsd", stateWithCreatedAt))
                       ELSE LPFBWithError(BuilderStateError(
                                "withConversion - btcPaymentAmount || btcProtocolAndBankFee not set"))
        ELSE IF btcPaymentAmountKnown
             THEN IF /\ state.recipientWalletCurrency = Some(Usd)
                     /\ usdPaymentAmountKnown
                  THEN LPFBWithConversion(ResolvedPromise(stateWithCreatedAt))
                  ELSE LPFBWithConversion(
                           PendingPromise(hedge, "usdFromBtc", stateWithCreatedAt))
             ELSE IF usdPaymentAmountKnown
                  THEN LPFBWithConversion(
                           PendingPromise(hedge, "btcFromUsd", stateWithCreatedAt))
                  ELSE LPFBWithError(BuilderStateError(
                           "withConversion - impossible withConversion state"))

\* Continuations of the async functions of withConversion once the rate
\* source has answered (None: DealerPriceServiceError; Some(n): an amount)
midUpdatedStateFromBtcPaymentAmount_Mutant(stateWithCreatedAt, convertedAmount) ==
    IF convertedAmount = None
    THEN FailedPromise(DealerPriceServiceError)
    ELSE LET priceRatio ==
                 PriceRatio(Val(convertedAmount), Val(stateWithCreatedAt.btcPaymentAmount))
         IN  IF ~priceRatio.ok
             THEN FailedPromise(InvalidZeroAmountPriceRatioInputError)
             ELSE ResolvedPromise(
                      [stateWithCreatedAt EXCEPT
                          !.usdPaymentAmount = convertedAmount,
                          !.usdProtocolAndBankFee =
                              Some(convertFromBtc(
                                       priceRatio,
                                       Val(stateWithCreatedAt.btcProtocolAndBankFee)))])

midUpdatedStateFromBtcPaymentAmount(stateWithCreatedAt, convertedAmount) ==
    IF convertedAmount = None
    THEN FailedPromise(DealerPriceServiceError)
    ELSE LET priceRatio ==
                 PriceRatio(Val(convertedAmount), Val(stateWithCreatedAt.btcPaymentAmount))
         IN  IF ~priceRatio.ok
             THEN FailedPromise(InvalidZeroAmountPriceRatioInputError)
             ELSE ResolvedPromise(
                      [stateWithCreatedAt EXCEPT
                          !.usdPaymentAmount = convertedAmount,
                          !.usdProtocolAndBankFee =
                              Some(convertFromBtcToCeil(
                                       priceRatio,
                                       Val(stateWithCreatedAt.btcProtocolAndBankFee)))])

midUpdatedStateFromUsdPaymentAmount(stateWithCreatedAt, convertedAmount) ==
    IF convertedAmount = None
    THEN FailedPromise(DealerPriceServiceError)
    ELSE LET priceRatio ==
                 PriceRatio(Val(stateWithCreatedAt.usdPaymentAmount), Val(convertedAmount))
         IN  IF ~priceRatio.ok
             THEN FailedPromise(InvalidZeroAmountPriceRatioInputError)
             ELSE ResolvedPromise(
                      [stateWithCreatedAt EXCEPT
                          !.btcPaymentAmount = convertedAmount,
                          !.btcProtocolAndBankFee =
                              Some(convertFromUsd(
                                       priceRatio,
                                       Val(stateWithCreatedAt.usdProtocolAndBankFee)))])

hedgeUpdatedStateFromBtcPaymentAmount_Mutant(stateWithCreatedAt, convertedAmount) ==
    IF convertedAmount = None
    THEN FailedPromise(DealerPriceServiceError)
    ELSE LET priceRatio ==
                 PriceRatio(Val(convertedAmount), Val(stateWithCreatedAt.btcPaymentAmount))
         IN  IF ~priceRatio.ok
             THEN FailedPromise(InvalidZeroAmountPriceRatioInputError)
             ELSE ResolvedPromise(
                      [stateWithCreatedAt EXCEPT !.usdPaymentAmount = convertedAmount])

hedgeUpdatedStateFromBtcPaymentAmount(stateWithCreatedAt, convertedAmount) ==
    IF convertedAmount = None
    THEN FailedPromise(DealerPriceServiceError)
    ELSE LET priceRatio ==
                 PriceRatio(Val(convertedAmount), Val(stateWithCreatedAt.btcPaymentAmount))
         IN  IF ~priceRatio.ok
             THEN FailedPromise(InvalidZeroAmountPriceRatioInputError)
             ELSE ResolvedPromise(
                      [stateWithCreatedAt EXCEPT
                          !.usdPaymentAmount = convertedAmount,
                          !.usdProtocolAndBankFee =
                              Some(convertFromBtcToCeil(
                                       priceRatio,
                                       Val(stateWithCreatedAt.btcProtocolAndBankFee)))])

hedgeUpdatedStateFromUsdPaymentAmount(stateWithCreatedAt, convertedAmount) ==
    IF convertedAmount = None
    THEN FailedPromise(DealerPriceServiceError)
    ELSE LET priceRatio ==
                 PriceRatio(Val(stateWithCreatedAt.usdPaymentAmount), Val(convertedAmount))
         IN  IF ~priceRatio.ok
             THEN FailedPromise(InvalidZeroAmountPriceRatioInputError)
             ELSE ResolvedPromise(
                      [stateWithCreatedAt EXCEPT
                          !.btcPaymentAmount = convertedAmount,
                          !.btcProtocolAndBankFee =
                              Some(convertFromUsd(
                                       priceRatio,
                                       Val(stateWithCreatedAt.usdProtocolAndBankFee)))])

settle(promise, convertedAmount) ==
    IF promise.source = "mid"
    THEN IF promise.fn = "usdFromBtc"
         THEN midUpdatedStateFromBtcPaymentAmount(promise.state, convertedAmount)
         ELSE midUpdatedStateFromUsdPaymentAmount(promise.state, convertedAmount)
    ELSE IF promise.fn = "usdFromBtc"
         THEN hedgeUpdatedStateFromBtcPaymentAmount(promise.state, convertedAmount)
         ELSE hedgeUpdatedStateFromUsdPaymentAmount(promise.state, convertedAmount)

----------------------------------------------------------------------------
(* LPFBWithConversion: values returned to the caller *)

NoResult == [kind |-> "none", error |-> None, flow |-> None, value |-> None]
ErrorResult(e) == [kind |-> "error", error |-> Some(e), flow |-> None, value |-> None]
FlowResult(f) == [kind |-> "flow", error |-> None, flow |-> Some(f), value |-> None]
ValueResult(v) == [kind |-> "value", error |-> None, flow |-> None, value |-> Some(v)]

paymentFromState_Mutant(state) ==
    FlowResult(
        [paymentHash |-> state.paymentHash,
         intraLedgerHash |-> state.intraLedgerHash,
         senderWalletId |-> state.senderWalletId,
         senderWalletCurrency |-> state.senderWalletCurrency,
         senderAccountId |-> state.senderAccountId,
         recipientWalletId |-> state.recipientWalletId,
         recipientWalletCurrency |-> state.recipientWalletCurrency,
         recipientAccountId |-> state.recipientAccountId,
         skipProbeForDestination |-> state.skipProbeForDestination,
         btcPaymentAmount |-> state.btcPaymentAmount,
         usdPaymentAmount |-> state.usdPaymentAmount,
         inputAmount |-> state.inputAmount,
         createdAt |-> state.createdAt,
         paymentSentAndPending |-> FALSE,
         settlementMethod |-> state.settlementMethod,
         paymentInitiationMethod |-> state.paymentInitiationMethod,
         btcProtocolAndBankFee |-> state.btcProtocolAndBankFee,
         usdProtocolAndBankFee |-> state.usdProtocolAndBankFee,
         outgoingNodePubkey |-> state.outgoingNodePubkey,
         cachedRoute |-> state.checkedRoute])

paymentFromState(state) ==
    IF state.paymentHash = None /\ state.intraLedgerHash = None
    THEN ErrorResult(InvalidLightningPaymentFlowStateError)
    ELSE FlowResult(
             [paymentHash |-> state.paymentHash,
              intraLedgerHash |->
                  IF IsSome(state.paymentHash) THEN None ELSE state.intraLedgerHash,
              senderWalletId |-> state.senderWalletId,
              senderWalletCurrency |-> state.senderWalletCurrency,
              senderAccountId |-> state.senderAccountId,
              recipientWalletId |-> state.recipientWalletId,
              recipientWalletCurrency |-> state.recipientWalletCurrency,
              recipientAccountId |-> state.recipientAccountId,
              skipProbeForDestination |-> state.skipProbeForDestination,
              btcPaymentAmount |-> state.btcPaymentAmount,
              usdPaymentAmount |-> state.usdPaymentAmount,
              inputAmount |-> state.inputAmount,
              createdAt |-> state.createdAt,
              paymentSentAndPending |-> FALSE,
              settlementMethod |-> state.settlementMethod,
              paymentInitiationMethod |-> state.paymentInitiationMethod,
              btcProtocolAndBankFee |-> state.btcProtocolAndBankFee,
              usdProtocolAndBankFee |-> state.usdProtocolAndBankFee,
              outgoingNodePubkey |-> state.outgoingNodePubkey,
              cachedRoute |-> state.checkedRoute])

withoutRoute(promise) ==
    IF IsSome(promise.error)
    THEN ErrorResult(Val(promise.error))
    ELSE paymentFromState(
             [promise.state EXCEPT !.outgoingNodePubkey = None, !.checkedRoute = None])

withRoute_Mutant(promise, pubkey, rawRoute) ==
    IF IsSome(promise.error)
    THEN ErrorResult(Val(promise.error))
    ELSE LET state == promise.state
             priceRatio ==
                 PriceRatio(Val(state.usdPaymentAmount), Val(state.btcPaymentAmount))
             btcProtocolAndBankFee == feeFromRawRoute(rawRoute)
         IN  IF ~priceRatio.ok
             THEN ErrorResult(InvalidZeroAmountPriceRatioInputError)
             ELSE IF btcProtocolAndBankFee = None
                  THEN ErrorResult(FeeError)
                  ELSE paymentFromState(
                           [state EXCEPT
                               !.outgoingNodePubkey = Some(pubkey),
                               !.checkedRoute = Some(rawRoute),
                               !.btcProtocolAndBankFee = btcProtocolAndBankFee])

withRoute(promise, pubkey, rawRoute) ==
    IF IsSome(promise.error)
    THEN ErrorResult(Val(promise.error))
    ELSE LET state == promise.state
             priceRatio ==
                 PriceRatio(Val(state.usdPaymentAmount), Val(state.btcPaymentAmount))
             btcProtocolAndBankFee == feeFromRawRoute(rawRoute)
         IN  IF ~priceRatio.ok
             THEN ErrorResult(InvalidZeroAmountPriceRatioInputError)
             ELSE IF btcProtocolAndBankFee = None
                  THEN ErrorResult(FeeError)
                  ELSE paymentFromState(
                           [state EXCEPT
                               !.outgoingNodePubkey = Some(pubkey),
                               !.checkedRoute = Some(rawRoute),
                               !.btcProtocolAndBankFee = btcProtocolAndBankFee,
                               !.usdProtocolAndBankFee =
                                   Some(convertFromBtcToCeil(
                                            priceRatio, Val(btcProtocolAndBankFee)))])

btcPaymentAmount_Mutant(promise) ==
    IF IsSome(promise.error)
    THEN ErrorResult(Val(promise.error))
    ELSE ValueResult(promise.state.usdPaymentAmount)

btcPaymentAmount(promise) ==
    IF IsSome(promise.error)
    THEN ErrorResult(Val(promise.error))
    ELSE ValueResult(promise.state.btcPaymentAmount)

usdPaymentAmount_Mutant(promise) ==
    ValueResult(promise.state.usdPaymentAmount)

usdPaymentAmount(promise) ==
    IF IsSome(promise.error)
    THEN ErrorResult(Val(promise.error))
    ELSE ValueResult(promise.state.usdPaymentAmount)

skipProbeForDestination(promise) ==
    IF IsSome(promise.error)
    THEN ErrorResult(Val(promise.error))
    ELSE ValueResult(promise.state.skipProbeForDestination)

isIntraLedger_Mutant(promise) ==
    IF IsSome(promise.error)
    THEN ErrorResult(Val(promise.error))
    ELSE ValueResult(promise.state.paymentInitiationMethod = Some(IntraLedger))

isIntraLedger(promise) ==
    IF IsSome(promise.error)
    THEN ErrorResult(Val(promise.error))
    ELSE ValueResult(promise.state.settlementMethod = Some(IntraLedger))

isTradeIntraAccount_Mutant(promise) ==
    IF IsSome(promise.error)
    THEN ErrorResult(Val(promise.error))
    ELSE ValueResult(promise.state.senderAccountId = promise.state.recipientAccountId)

isTradeIntraAccount(promise) ==
    IF IsSome(promise.error)
    THEN ErrorResult(Val(promise.error))
    ELSE ValueResult(
             /\ promise.state.senderAccountId = promise.state.recipientAccountId
             /\ promise.state.senderWalletCurrency # promise.state.recipientWalletCurrency)

----------------------------------------------------------------------------
(* LPFBWithError: every operation hands back the error it was built with *)

LPFBWithError_withSenderWallet(error) == LPFBWithError(error)
LPFBWithError_withoutRecipientWallet(error) == LPFBWithError(error)
LPFBWithError_withRecipientWallet(error) == LPFBWithError(error)
LPFBWithError_withConversion_Mutant(error) ==
    LPFBWithError(BuilderStateError("withConversion - impossible withConversion state"))
LPFBWithError_withConversion(error) == LPFBWithError(error)
LPFBWithError_withRoute(error) == ErrorResult(error)
LPFBWithError_withoutRoute(error) == ErrorResult(error)
LPFBWithError_skipProbeForDestination(error) == ErrorResult(error)
LPFBWithError_isIntraLedger(error) == ErrorResult(error)
LPFBWithError_isTradeIntraAccount(error) == ErrorResult(error)
LPFBWithError_btcPaymentAmount(error) == ErrorResult(error)
LPFBWithError_usdPaymentAmount(error) == ErrorResult(error)

----------------------------------------------------------------------------
(* The caller driving one builder chain *)

Initial == Stage("Initial", EmptyState)

NoCall ==
    [op |-> "", before |-> Initial, invoice |-> None, uncheckedAmount |-> None,
     senderWallet |-> None, recipient |-> None, now |-> None,
     convertedAmount |-> None, pubkey |-> None, rawRoute |-> None,
     again |-> None]

NoLimitsCheck == [check |-> "", outcome |-> NoResult]

NoRatio ==
    [usd |-> 0, btc |-> 0, amount |-> 0, priceRatio |-> None,
     fromBtc |-> None, fromBtcToCeil |-> None, fromUsd |-> None]

collaborators == <<zeroAmountValid, limits, ratio>>
others == <<initial, zeroAmountValid, limits, ratio>>

\* No function of a stage assigns to the state it closes over: every
\* transition spreads it into a new object, so the stage a call was invoked
\* on is afterwards what it was before.
receiverAfterCall_Mutant(stage) ==
    [stage EXCEPT !.state.recipientWalletId = Some("w3")]

receiverAfterCall(stage) == stage

\* a rate source is invoked when withConversion leaves its promise pending
invoked(stage) ==
    IF stage.stage = "WithConversion" /\ stage.promise.status = "pending"
    THEN <<[source |-> stage.promise.source, fn |-> stage.promise.fn]>>
    ELSE <<>>

\* The caller still holds the stage its last call was invoked on and turns
\* back to it for another call; `again` records how the earlier call ended.
\* No conversion belongs to the stage turned back to, so `calls` restarts.
outcomeOf(stage) ==
    IF stage.stage = "Error" THEN Some(<<"Error", Val(stage.error)>>)
    ELSE Some(<<stage.stage>>)

\* set by a call made right after turning back, empty otherwise
carriedAgain == IF lastCall.op = "callAgain" THEN lastCall.again ELSE None

CallWithInvoice ==
    \E invoice \in Invoices :
        /\ builder.stage = "Initial"
        /\ builder' = withInvoice(invoice)
        /\ lastCall' = [NoCall EXCEPT !.op = "withInvoice", !.before = builder,
                                      !.invoice = Some(invoice)]
        /\ initial' = lastCall'
        /\ receiver' = receiverAfterCall(builder)
        /\ UNCHANGED <<result, calls, collaborators>>

CallWithNoAmountInvoice ==
    \E invoice \in NoAmountInvoices, uncheckedAmount \in UncheckedAmounts :
        /\ builder.stage = "Initial"
        /\ builder' = withNoAmountInvoice(invoice, uncheckedAmount)
        /\ lastCall' = [NoCall EXCEPT !.op = "withNoAmountInvoice", !.before = builder,
                                      !.invoice = Some(invoice),
                                      !.uncheckedAmount = Some(uncheckedAmount)]
        /\ initial' = lastCall'
        /\ receiver' = receiverAfterCall(builder)
        /\ UNCHANGED <<result, calls, collaborators>>

CallWithoutInvoice ==
    \E uncheckedAmount \in UncheckedAmounts :
        /\ builder.stage = "Initial"
        /\ builder' = withoutInvoice(uncheckedAmount)
        /\ lastCall' = [NoCall EXCEPT !.op = "withoutInvoice", !.before = builder,
                                      !.uncheckedAmount = Some(uncheckedAmount)]
        /\ initial' = lastCall'
        /\ receiver' = receiverAfterCall(builder)
        /\ UNCHANGED <<result, calls, collaborators>>

CallWithSenderWallet ==
    \E senderWallet \in SenderWallets :
        /\ builder.stage = "WithInvoice"
        /\ builder' = withSenderWallet(builder.state, senderWallet)
        /\ lastCall' = [NoCall EXCEPT !.op = "withSenderWallet", !.before = builder,
                                      !.senderWallet = Some(senderWallet),
                                      !.again = carriedAgain]
        /\ receiver' = receiverAfterCall(builder)
        /\ UNCHANGED <<result, calls, others>>

CallWithoutRecipientWallet ==
    /\ builder.stage = "WithSenderWallet"
    /\ builder' = withoutRecipientWallet(builder.state)
    /\ lastCall' = [NoCall EXCEPT !.op = "withoutRecipientWallet", !.before = builder,
                                  !.again = carriedAgain]
    /\ receiver' = receiverAfterCall(builder)
    /\ UNCHANGED <<result, calls, others>>

CallWithRecipientWallet ==
    \E recipient \in RecipientWallets :
        /\ builder.stage = "WithSenderWallet"
        /\ builder' = withRecipientWallet(builder.state, recipient)
        /\ lastCall' = [NoCall EXCEPT !.op = "withRecipientWallet", !.before = builder,
                                      !.recipient = Some(recipient),
                                      !.again = carriedAgain]
        /\ receiver' = receiverAfterCall(builder)
        /\ UNCHANGED <<result, calls, others>>

CallSenderWalletIsIntraLedger ==
    /\ builder.stage = "WithSenderWallet"
    /\ result' = ValueResult(LPFBWithSenderWallet_isIntraLedger(builder.state))
    /\ lastCall' = [NoCall EXCEPT !.op = "isIntraLedger", !.before = builder]
    /\ receiver' = receiverAfterCall(builder)
    /\ UNCHANGED <<builder, calls, others>>

CallWithConversion ==
    \E now \in Clock :
        /\ builder.stage = "WithRecipientWallet"
        /\ builder' = withConversion(builder.state, now)
        /\ calls' = calls \o invoked(builder')
        /\ lastCall' = [NoCall EXCEPT !.op = "withConversion", !.before = builder,
                                      !.now = Some(now),
                                      !.again = carriedAgain]
        /\ receiver' = receiverAfterCall(builder)
        /\ UNCHANGED <<result, others>>

\* the awaited rate source answers and the async function runs to its end
RateSourceResponds ==
    \E convertedAmount \in RateResponses :
        /\ builder.stage = "WithConversion"
        /\ builder.promise.status = "pending"
        /\ builder' = LPFBWithConversion(settle(builder.promise, convertedAmount))
        /\ lastCall' = [NoCall EXCEPT !.op = builder.promise.fn, !.before = builder,
                                      !.convertedAmount = Some(convertedAmount)]
        /\ UNCHANGED <<receiver, result, calls, others>>

\* `await statePromise` continues once the promise is settled
Settled == builder.stage = "WithConversion" /\ builder.promise.status = "settled"

CallWithoutRoute ==
    /\ Settled
    /\ result' = withoutRoute(builder.promise)
    /\ lastCall' = [NoCall EXCEPT !.op = "withoutRoute", !.before = builder]
    /\ receiver' = receiverAfterCall(builder)
    /\ UNCHANGED <<builder, calls, others>>

CallWithRoute ==
    \E pubkey \in {"pkOutgoing"}, rawRoute \in RawRoutes :
        /\ Settled
        /\ result' = withRoute(builder.promise, pubkey, rawRoute)
        /\ lastCall' = [NoCall EXCEPT !.op = "withRoute", !.before = builder,
                                      !.pubkey = Some(pubkey),
                                      !.rawRoute = Some(rawRoute)]
        /\ receiver' = receiverAfterCall(builder)
        /\ UNCHANGED <<builder, calls, others>>

CallBtcPaymentAmount ==
    /\ Settled
    /\ result' = btcPaymentAmount(builder.promise)
    /\ lastCall' = [NoCall EXCEPT !.op = "btcPaymentAmount", !.before = builder]
    /\ receiver' = receiverAfterCall(builder)
    /\ UNCHANGED <<builder, calls, others>>

CallUsdPaymentAmount ==
    /\ Settled
    /\ result' = usdPaymentAmount(builder.promise)
    /\ lastCall' = [NoCall EXCEPT !.op = "usdPaymentAmount", !.before = builder]
    /\ receiver' = receiverAfterCall(builder)
    /\ UNCHANGED <<builder, calls, others>>

CallSkipProbeForDestination ==
    /\ Settled
    /\ result' = skipProbeForDestination(builder.promise)
    /\ lastCall' = [NoCall EXCEPT !.op = "skipProbeForDestination", !.before = builder]
    /\ receiver' = receiverAfterCall(builder)
    /\ UNCHANGED <<builder, calls, others>>

CallIsIntraLedger ==
    /\ Settled
    /\ result' = isIntraLedger(builder.promise)
    /\ lastCall' = [NoCall EXCEPT !.op = "isIntraLedger", !.before = builder]
    /\ receiver' = receiverAfterCall(builder)
    /\ UNCHANGED <<builder, calls, others>>

CallIsTradeIntraAccount ==
    /\ Settled
    /\ result' = isTradeIntraAccount(builder.promise)
    /\ lastCall' = [NoCall EXCEPT !.op = "isTradeIntraAccount", !.before = builder]
    /\ receiver' = receiverAfterCall(builder)
    /\ UNCHANGED <<builder, calls, others>>

\* The caller turns back to the stage its last call was invoked on.
ReturnToReceiver ==
    /\ receiver.stage \in {"WithInvoice", "WithSenderWallet", "WithRecipientWallet"}
    /\ builder # receiver
    /\ builder' = receiver
    /\ lastCall' = [NoCall EXCEPT !.op = "callAgain", !.before = receiver,
                                  !.again = outcomeOf(builder)]
    /\ calls' = <<>>
    /\ UNCHANGED <<receiver, result, others>>

----------------------------------------------------------------------------
(* The same operations invoked on the error stage.  The functions of        *)
(* LPFBWithError declare no parameters, so whatever the caller passes is   *)
(* dropped before the body runs.                                           *)

OnError == builder.stage = "Error"

ErrWithSenderWallet ==
    /\ OnError
    /\ builder' = LPFBWithError_withSenderWallet(Val(builder.error))
    /\ lastCall' = [NoCall EXCEPT !.op = "withSenderWallet", !.before = builder]
    /\ receiver' = receiverAfterCall(builder)
    /\ UNCHANGED <<result, calls, others>>

ErrWithoutRecipientWallet ==
    /\ OnError
    /\ builder' = LPFBWithError_withoutRecipientWallet(Val(builder.error))
    /\ lastCall' = [NoCall EXCEPT !.op = "withoutRecipientWallet", !.before = builder]
    /\ receiver' = receiverAfterCall(builder)
    /\ UNCHANGED <<result, calls, others>>

ErrWithRecipientWallet ==
    /\ OnError
    /\ builder' = LPFBWithError_withRecipientWallet(Val(builder.error))
    /\ lastCall' = [NoCall EXCEPT !.op = "withRecipientWallet", !.before = builder]
    /\ receiver' = receiverAfterCall(builder)
    /\ UNCHANGED <<result, calls, others>>

ErrWithConversion ==
    /\ OnError
    /\ builder' = LPFBWithError_withConversion(Val(builder.error))
    /\ lastCall' = [NoCall EXCEPT !.op = "withConversion", !.before = builder]
    /\ receiver' = receiverAfterCall(builder)
    /\ UNCHANGED <<result, calls, others>>

ErrWithRoute ==
    /\ OnError
    /\ result' = LPFBWithError_withRoute(Val(builder.error))
    /\ lastCall' = [NoCall EXCEPT !.op = "withRoute", !.before = builder]
    /\ receiver' = receiverAfterCall(builder)
    /\ UNCHANGED <<builder, calls, others>>

ErrWithoutRoute ==
    /\ OnError
    /\ result' = LPFBWithError_withoutRoute(Val(builder.error))
    /\ lastCall' = [NoCall EXCEPT !.op = "withoutRoute", !.before = builder]
    /\ receiver' = receiverAfterCall(builder)
    /\ UNCHANGED <<builder, calls, others>>

ErrSkipProbeForDestination ==
    /\ OnError
    /\ result' = LPFBWithError_skipProbeForDestination(Val(builder.error))
    /\ lastCall' = [NoCall EXCEPT !.op = "skipProbeForDestination", !.before = builder]
    /\ receiver' = receiverAfterCall(builder)
    /\ UNCHANGED <<builder, calls, others>>

ErrIsIntraLedger ==
    /\ OnError
    /\ result' = LPFBWithError_isIntraLedger(Val(builder.error))
    /\ lastCall' = [NoCall EXCEPT !.op = "isIntraLedger", !.before = builder]
    /\ receiver' = receiverAfterCall(builder)
    /\ UNCHANGED <<builder, calls, others>>

ErrIsTradeIntraAccount ==
    /\ OnError
    /\ result' = LPFBWithError_isTradeIntraAccount(Val(builder.error))
    /\ lastCall' = [NoCall EXCEPT !.op = "isTradeIntraAccount", !.before = builder]
    /\ receiver' = receiverAfterCall(builder)
    /\ UNCHANGED <<builder, calls, others>>

ErrBtcPaymentAmount ==
    /\ OnError
    /\ result' = LPFBWithError_btcPaymentAmount(Val(builder.error))
    /\ lastCall' = [NoCall EXCEPT !.op = "btcPaymentAmount", !.before = builder]
    /\ receiver' = receiverAfterCall(builder)
    /\ UNCHANGED <<builder, calls, others>>

ErrUsdPaymentAmount ==
    /\ OnError
    /\ result' = LPFBWithError_usdPaymentAmount(Val(builder.error))
    /\ lastCall' = [NoCall EXCEPT !.op = "usdPaymentAmount", !.before = builder]
    /\ receiver' = receiverAfterCall(builder)
    /\ UNCHANGED <<builder, calls, others>>

----------------------------------------------------------------------------
(* Specification of the builder *)

Init ==
    /\ builder = Initial
    /\ lastCall = NoCall
    /\ receiver = Initial
    /\ initial = NoCall
    /\ result = NoResult
    /\ calls = <<>>
    /\ zeroAmountValid \in BOOLEAN
    /\ limits = NoLimitsCheck
    /\ ratio = NoRatio

Next ==
    \/ CallWithInvoice
    \/ CallWithNoAmountInvoice
    \/ CallWithoutInvoice
    \/ CallWithSenderWallet
    \/ CallWithoutRecipientWallet
    \/ CallWithRecipientWallet
    \/ CallSenderWalletIsIntraLedger
    \/ CallWithConversion
    \/ RateSourceResponds
    \/ CallWithoutRoute
    \/ CallWithRoute
    \/ CallBtcPaymentAmount
    \/ CallUsdPaymentAmount
    \/ CallSkipProbeForDestination
    \/ CallIsIntraLedger
    \/ CallIsTradeIntraAccount
    \/ ReturnToReceiver
    \/ ErrWithSenderWallet
    \/ ErrWithoutRecipientWallet
    \/ ErrWithRecipientWallet
    \/ ErrWithConversion
    \/ ErrWithRoute
    \/ ErrWithoutRoute
    \/ ErrSkipProbeForDestination
    \/ ErrIsIntraLedger
    \/ ErrIsTradeIntraAccount
    \/ ErrBtcPaymentAmount
    \/ ErrUsdPaymentAmount

Spec == Init /\ [][Next]_vars

----------------------------------------------------------------------------
(* AccountLimitsChecker and TwoFALimitsChecker *)

MaxLimit == 3
MaxVolume == 3

IntraledgerLimitsExceededError == "IntraledgerLimitsExceededError"
WithdrawalLimitsExceededError == "WithdrawalLimitsExceededError"
TwoFALimitsExceededError == "TwoFALimitsExceededError"
PriceRatioConversionError == "PriceRatioConversionError"
InvalidPaymentAmountError == "InvalidPaymentAmountError"

\* a configured number: an integer number of cents, or a number that is not one
ConfiguredLimits ==
    {[value |-> n, isInteger |-> TRUE] : n \in 0..MaxLimit}
        \cup {[value |-> 0, isInteger |-> FALSE]}
AccountLimits == [intraLedgerLimit : ConfiguredLimits, withdrawalLimit : ConfiguredLimits]
TwoFALimits == [threshold : ConfiguredLimits]

\* the priceRatio handed to the checker: its conversion is awaited and may fail
LimitPriceRatios == [usd : {1}, btc : {1, 2}, fails : BOOLEAN]
WalletVolumes == [amount : 0..MaxVolume, currency : {Btc, Usd}]
RequestedAmounts == 0..(MaxLimit + 1)

TrueResult == ValueResult(TRUE)

\* paymentAmountFromNumber({amount, currency}): None is a construction error
paymentAmountFromNumber(number) ==
    IF number.isInteger THEN Some(number.value) ELSE None

\* walletVolume.outgoingBaseAmount in USD; None is a conversion error
volumeInUsdAmount(priceRatio, walletVolume) ==
    IF walletVolume.currency = Btc
    THEN IF priceRatio.fails
         THEN None
         ELSE Some(convertFromBtc(priceRatio, walletVolume.amount))
    ELSE Some(walletVolume.amount)

checkIntraledger_Mutant(accountLimits, priceRatio, amount, walletVolume) ==
    LET volume == volumeInUsdAmount(priceRatio, walletVolume)
        limit == paymentAmountFromNumber(accountLimits.intraLedgerLimit)
    IN  IF volume = None
        THEN ErrorResult(PriceRatioConversionError)
        ELSE IF limit = None
             THEN ErrorResult(InvalidPaymentAmountError)
             ELSE LET remainingLimit == Val(limit) - Val(volume)
                  IN  IF remainingLimit <= amount
                      THEN ErrorResult(IntraledgerLimitsExceededError)
                      ELSE TrueResult

checkIntraledger(accountLimits, priceRatio, amount, walletVolume) ==
    LET volume == volumeInUsdAmount(priceRatio, walletVolume)
        limit == paymentAmountFromNumber(accountLimits.intraLedgerLimit)
    IN  IF volume = None
        THEN ErrorResult(PriceRatioConversionError)
        ELSE IF limit = None
             THEN ErrorResult(InvalidPaymentAmountError)
             ELSE LET remainingLimit == Val(limit) - Val(volume)
                  IN  IF remainingLimit < amount
                      THEN ErrorResult(IntraledgerLimitsExceededError)
                      ELSE TrueResult

checkWithdrawal_Mutant(accountLimits, priceRatio, amount, walletVolume) ==
    LET volume == volumeInUsdAmount(priceRatio, walletVolume)
        limit == paymentAmountFromNumber(accountLimits.intraLedgerLimit)
    IN  IF volume = None
        THEN ErrorResult(PriceRatioConversionError)
        ELSE IF limit = None
             THEN ErrorResult(InvalidPaymentAmountError)
             ELSE LET remainingLimit == Val(limit) - Val(volume)
                  IN  IF remainingLimit < amount
                      THEN ErrorResult(WithdrawalLimitsExceededError)
                      ELSE TrueResult

checkWithdrawal(accountLimits, priceRatio, amount, walletVolume) ==
    LET volume == volumeInUsdAmount(priceRatio, walletVolume)
        limit == paymentAmountFromNumber(accountLimits.withdrawalLimit)
    IN  IF volume = None
        THEN ErrorResult(PriceRatioConversionError)
        ELSE IF limit = None
             THEN ErrorResult(InvalidPaymentAmountError)
             ELSE LET remainingLimit == Val(limit) - Val(volume)
                  IN  IF remainingLimit < amount
                      THEN ErrorResult(WithdrawalLimitsExceededError)
                      ELSE TrueResult

checkTwoFA_Mutant(twoFALimits, priceRatio, amount, walletVolume) ==
    LET volume == volumeInUsdAmount(priceRatio, walletVolume)
        limit == paymentAmountFromNumber(twoFALimits.threshold)
    IN  IF volume = None \/ limit = None
        THEN ErrorResult(TwoFALimitsExceededError)
        ELSE LET remainingLimit == Val(limit) - Val(volume)
             IN  IF remainingLimit < amount
                 THEN ErrorResult(TwoFALimitsExceededError)
                 ELSE TrueResult

checkTwoFA(twoFALimits, priceRatio, amount, walletVolume) ==
    LET volume == volumeInUsdAmount(priceRatio, walletVolume)
        limit == paymentAmountFromNumber(twoFALimits.threshold)
    IN  IF volume = None
        THEN ErrorResult(PriceRatioConversionError)
        ELSE IF limit = None
             THEN ErrorResult(InvalidPaymentAmountError)
             ELSE LET remainingLimit == Val(limit) - Val(volume)
                  IN  IF remainingLimit < amount
                      THEN ErrorResult(TwoFALimitsExceededError)
                      ELSE TrueResult

notLimits == <<builder, lastCall, receiver, initial, result, calls, zeroAmountValid, ratio>>

\* the checkers' configuration and the inputs of one check
InitLimits ==
    /\ builder = Initial
    /\ lastCall = NoCall
    /\ receiver = Initial
    /\ initial = NoCall
    /\ result = NoResult
    /\ calls = <<>>
    /\ zeroAmountValid = FALSE
    /\ ratio = NoRatio
    /\ limits \in [check : {""},
                    accountLimits : AccountLimits,
                    twoFALimits : TwoFALimits,
                    priceRatio : LimitPriceRatios,
                    amount : RequestedAmounts,
                    walletVolume : WalletVolumes,
                    outcome : {NoResult}]

CheckIntraledger ==
    /\ limits' = [limits EXCEPT
                      !.check = "checkIntraledger",
                      !.outcome = checkIntraledger(limits.accountLimits, limits.priceRatio,
                                                   limits.amount, limits.walletVolume)]
    /\ UNCHANGED notLimits

CheckWithdrawal ==
    /\ limits' = [limits EXCEPT
                      !.check = "checkWithdrawal",
                      !.outcome = checkWithdrawal(limits.accountLimits, limits.priceRatio,
                                                  limits.amount, limits.walletVolume)]
    /\ UNCHANGED notLimits

CheckTwoFA ==
    /\ limits' = [limits EXCEPT
                      !.check = "checkTwoFA",
                      !.outcome = checkTwoFA(limits.twoFALimits, limits.priceRatio,
                                             limits.amount, limits.walletVolume)]
    /\ UNCHANGED notLimits

NextLimits == CheckIntraledger \/ CheckWithdrawal \/ CheckTwoFA

SpecLimits == InitLimits /\ [][NextLimits]_vars

----------------------------------------------------------------------------
(* PriceRatio as a pure function *)

MaxRatioAmount == 4

InitRatio ==
    /\ builder = Initial
    /\ lastCall = NoCall
    /\ receiver = Initial
    /\ initial = NoCall
    /\ result = NoResult
    /\ calls = <<>>
    /\ zeroAmountValid = FALSE
    /\ limits = NoLimitsCheck
    /\ ratio \in [usd : 0..MaxRatioAmount, btc : 0..MaxRatioAmount,
                   amount : 0..MaxRatioAmount, priceRatio : {None},
                   fromBtc : {None}, fromBtcToCeil : {None}, fromUsd : {None}]

notRatio == <<builder, lastCall, receiver, initial, result, calls, zeroAmountValid, limits>>

NewPriceRatio ==
    /\ ratio.priceRatio = None
    /\ ratio' = [ratio EXCEPT !.priceRatio = Some(PriceRatio(ratio.usd, ratio.btc))]
    /\ UNCHANGED notRatio

Constructed == ratio.priceRatio # None /\ Val(ratio.priceRatio).ok

ApplyConvertFromBtc ==
    /\ Constructed
    /\ ratio' = [ratio EXCEPT
                     !.fromBtc = Some(convertFromBtc(Val(ratio.priceRatio), ratio.amount))]
    /\ UNCHANGED notRatio

ApplyConvertFromBtcToCeil ==
    /\ Constructed
    /\ ratio' = [ratio EXCEPT
                     !.fromBtcToCeil =
                         Some(convertFromBtcToCeil(Val(ratio.priceRatio), ratio.amount))]
    /\ UNCHANGED notRatio

ApplyConvertFromUsd ==
    /\ Constructed
    /\ ratio' = [ratio EXCEPT
                     !.fromUsd = Some(convertFromUsd(Val(ratio.priceRatio), ratio.amount))]
    /\ UNCHANGED notRatio

NextRatio ==
    \/ NewPriceRatio
    \/ ApplyConvertFromBtc
    \/ ApplyConvertFromBtcToCeil
    \/ ApplyConvertFromUsd

SpecRatio == InitRatio /\ [][NextRatio]_vars

----------------------------------------------------------------------------
(* Properties *)

TerminalOps ==
    {"withRoute", "withoutRoute", "btcPaymentAmount", "usdPaymentAmount",
     "skipProbeForDestination", "isIntraLedger", "isTradeIntraAccount"}

\* C1: once the builder is the error stage, every operation invoked on it
\* leaves it the error stage with the same error: a stage transition returns
\* the error stage again without returning a value, and a terminal or
\* accessor call returns exactly that error.
C1_StickyError ==
    [][(OnError /\ lastCall'.op # "callAgain") =>
          /\ builder' = builder
          /\ IF lastCall'.op \in TerminalOps
             THEN result' = ErrorResult(Val(builder.error))
             ELSE result' = result]_vars

C1_Witness ==
    /\ OnError
    /\ lastCall.before.stage = "Error"
    /\ lastCall.op = "withoutRoute"
    /\ builder.error = Some(SelfPaymentError)
    /\ result = ErrorResult(SelfPaymentError)

\* C2: a stage built by withInvoice or withNoAmountInvoice settles IntraLedger
\* when the invoice destination is absent or a local node and Lightning
\* otherwise; withoutInvoice always settles IntraLedger.
C2_SettlementResolution ==
    /\ (lastCall.op \in {"withInvoice", "withNoAmountInvoice"}
            /\ builder.stage = "WithInvoice") =>
           LET destination == Val(lastCall.invoice).destination
           IN  builder.state.settlementMethod =
                   IF destination = None \/ Val(destination) \in LocalNodeIds
                   THEN Some(IntraLedger)
                   ELSE Some(Lightning)
    /\ lastCall.op = "withoutInvoice" =>
           /\ builder.stage = "WithInvoice"
           /\ builder.state.settlementMethod = Some(IntraLedger)

C2_Witness ==
    /\ lastCall.op = "withInvoice"
    /\ builder.stage = "WithInvoice"
    /\ Val(lastCall.invoice).destination = Some("pkRemote")
    /\ builder.state.settlementMethod = Some(Lightning)

\* C3: withRecipientWallet on a WithSenderWallet stage with the sender's own
\* wallet id yields the self-payment error whatever the other fields are,
\* also when the USD-amount / unchecked-amount check would fail as well.
SelfPaymentCall ==
    /\ lastCall.op = "withRecipientWallet"
    /\ lastCall.before.stage = "WithSenderWallet"
    /\ Some(Val(lastCall.recipient).id) = lastCall.before.state.senderWalletId

C3_SelfPaymentRejected ==
    SelfPaymentCall => builder = LPFBWithError(SelfPaymentError)

C3_Witness ==
    /\ SelfPaymentCall
    /\ Val(lastCall.recipient).currency = Usd
    /\ IsSome(Val(lastCall.recipient).usdPaymentAmount)
    /\ TruthyNumber(lastCall.before.state.uncheckedAmount)
    /\ builder = LPFBWithError(SelfPaymentError)

\* C4: no stage transition raises an exception: every transition returns the
\* next stage or an error value.
C4_NoException == builder.stage # "Thrown"

\* C5: a terminal call returns an error or a payment flow, and every flow has
\* its sender wallet id and currency, both payment amounts, both fees, the
\* settlement and initiation methods and the creation timestamp defined.
CompleteFlow(f) ==
    /\ IsSome(f.senderWalletId)
    /\ IsSome(f.senderWalletCurrency)
    /\ IsSome(f.btcPaymentAmount)
    /\ IsSome(f.usdPaymentAmount)
    /\ IsSome(f.btcProtocolAndBankFee)
    /\ IsSome(f.usdProtocolAndBankFee)
    /\ IsSome(f.settlementMethod)
    /\ IsSome(f.paymentInitiationMethod)
    /\ IsSome(f.createdAt)

C5_AllOrNothing ==
    lastCall.op \in {"withRoute", "withoutRoute"} =>
        \/ result.kind = "error" /\ IsSome(result.error) /\ result.flow = None
        \/ result.kind = "flow" /\ CompleteFlow(Val(result.flow))

C5_Witness ==
    /\ lastCall.op = "withoutRoute"
    /\ result.kind = "flow"
    /\ Val(result.flow).senderWalletCurrency = Some(Btc)
    /\ Val(result.flow).recipientWalletCurrency = Some(Usd)
    /\ calls = <<[source |-> "hedgeBuyUsd", fn |-> "usdFromBtc"]>>
    /\ CompleteFlow(Val(result.flow))

\* C6: with a USD volume V and an integer ceiling L, each check returns true
\* for a request of exactly L - V, its limits-exceeded error for a request of
\* L - V + 1, and in general fails exactly when L - V < the requested amount.
CheckedCeiling ==
    IF limits.check = "checkIntraledger" THEN limits.accountLimits.intraLedgerLimit
    ELSE IF limits.check = "checkWithdrawal" THEN limits.accountLimits.withdrawalLimit
    ELSE limits.twoFALimits.threshold

CheckedError ==
    IF limits.check = "checkIntraledger" THEN IntraledgerLimitsExceededError
    ELSE IF limits.check = "checkWithdrawal" THEN WithdrawalLimitsExceededError
    ELSE TwoFALimitsExceededError

C6_LimitsBoundary ==
    (limits.check # "" /\ limits.walletVolume.currency = Usd
         /\ CheckedCeiling.isInteger) =>
        LET L == CheckedCeiling.value
            V == limits.walletVolume.amount
        IN  /\ limits.amount = L - V => limits.outcome = TrueResult
            /\ limits.amount = L - V + 1 =>
                   limits.outcome = ErrorResult(CheckedError)
            /\ limits.outcome =
                   IF L - V < limits.amount
                   THEN ErrorResult(CheckedError)
                   ELSE TrueResult

C6_Witness ==
    /\ limits.check = "checkIntraledger"
    /\ limits.walletVolume.currency = Usd
    /\ limits.walletVolume.amount > 0
    /\ CheckedCeiling.isInteger
    /\ limits.amount = CheckedCeiling.value - limits.walletVolume.amount + 1
    /\ limits.outcome = ErrorResult(IntraledgerLimitsExceededError)

\* C7: each check compares against its own ceiling, the only limits-exceeded
\* error it returns is its own, and its outcome does not change when one of
\* the other ceilings is changed.
LimitsExceededErrors ==
    {IntraledgerLimitsExceededError, WithdrawalLimitsExceededError,
     TwoFALimitsExceededError}

ConversionCall ==
    /\ lastCall.op = "withConversion"
    /\ lastCall.before.stage = "WithRecipientWallet"

BtcToBtc(state) ==
    /\ state.senderWalletCurrency = Some(Btc)
    /\ state.recipientWalletCurrency = Some(Btc)

AmountsKnown(state) ==
    IsSome(state.btcPaymentAmount) /\ IsSome(state.usdPaymentAmount)

FeesKnown(state) ==
    IsSome(state.btcProtocolAndBankFee) /\ IsSome(state.usdProtocolAndBankFee)

C8_Original ==
    (/\ ConversionCall
     /\ BtcToBtc(lastCall.before.state)
     /\ lastCall.before.state.settlementMethod = Some(Lightning)
     /\ AmountsKnown(lastCall.before.state)) => calls = <<>>

\* C8 (amended): for a BTC sender and a BTC recipient wallet, when both
\* payment amounts and both fees are known before withConversion, it invokes
\* no rate source and keeps the known amounts and fees; with Lightning
\* settlement the USD fee is not yet known at that point, and withConversion
\* invokes mid.usdFromBtc once and no hedge source.
C8_NoConversionShortcut ==
    (ConversionCall /\ BtcToBtc(lastCall.before.state)
         /\ AmountsKnown(lastCall.before.state)) =>
        /\ FeesKnown(lastCall.before.state) =>
               /\ calls = <<>>
               /\ builder.stage = "WithConversion"
               /\ builder.promise =
                      ResolvedPromise([lastCall.before.state EXCEPT
                                          !.createdAt = lastCall.now])
        /\ lastCall.before.state.settlementMethod = Some(Lightning) =>
               /\ ~FeesKnown(lastCall.before.state)
               /\ calls = <<[source |-> "mid", fn |-> "usdFromBtc"]>>

C8_Witness ==
    /\ lastCall.op = "withoutRoute"
    /\ result.kind = "flow"
    /\ lastCall.before.stage = "WithConversion"
    /\ BtcToBtc(lastCall.before.promise.state)
    /\ calls = <<>>

\* C9: in every state resolved by withConversion, and in every flow built by
\* withRoute, the fee that was not computed directly is the ceiling-rounded
\* conversion of the authoritative fee, in both directions, so it is never
\* below the exact proportional value.
C9_FeeRoundsUp ==
    /\ (lastCall.op \in {"usdFromBtc", "btcFromUsd"}
            /\ builder.stage = "WithConversion"
            /\ builder.promise.status = "settled"
            /\ builder.promise.error = None) =>
           LET state == builder.promise.state
               btc == Val(state.btcPaymentAmount)
               usd == Val(state.usdPaymentAmount)
               btcFee == Val(state.btcProtocolAndBankFee)
               usdFee == Val(state.usdProtocolAndBankFee)
           IN  IF lastCall.op = "usdFromBtc"
               THEN usdFee = divCeil(btcFee * usd, btc) /\ usdFee * btc >= btcFee * usd
               ELSE btcFee = divCeil(usdFee * btc, usd) /\ btcFee * usd >= usdFee * btc
    /\ (lastCall.op = "withRoute" /\ result.kind = "flow") =>
           LET flow == Val(result.flow)
               btc == Val(flow.btcPaymentAmount)
               usd == Val(flow.usdPaymentAmount)
               btcFee == Val(flow.btcProtocolAndBankFee)
               usdFee == Val(flow.usdProtocolAndBankFee)
           IN  usdFee = divCeil(btcFee * usd, btc) /\ usdFee * btc >= btcFee * usd

\* C10: for every price ratio built from strictly positive amounts and every
\* BTC fee f, convertFromBtcToCeil(f) >= convertFromBtc(f), and the two are
\* equal only when f * usd / btc is an exact division.
C10_CeilNeverUnderCounts ==
    (IsSome(ratio.fromBtc) /\ IsSome(ratio.fromBtcToCeil)) =>
        /\ Val(ratio.fromBtcToCeil) >= Val(ratio.fromBtc)
        /\ Val(ratio.fromBtcToCeil) = Val(ratio.fromBtc) =>
               (ratio.amount * ratio.usd) % ratio.btc = 0

C10_Witness ==
    /\ IsSome(ratio.fromBtc)
    /\ IsSome(ratio.fromBtcToCeil)
    /\ Val(ratio.fromBtcToCeil) > Val(ratio.fromBtc)
    /\ ratio.usd > 1
    /\ ratio.btc > 1

\* C11: every flow returned by withRoute or withoutRoute carries exactly one
\* of paymentHash and intraLedgerHash: the invoice's paymentHash alone when
\* the chain started with withInvoice or withNoAmountInvoice, the generated
\* intraLedgerHash alone when it started with withoutInvoice; a state with
\* neither hash gives the internal state error and no flow.
FromInvoice == initial.op \in {"withInvoice", "withNoAmountInvoice"}

TerminalFlow ==
    lastCall.op \in {"withRoute", "withoutRoute"} /\ result.kind = "flow"

C11_HashExclusivity ==
    /\ TerminalFlow =>
           LET flow == Val(result.flow)
           IN  /\ IsSome(flow.paymentHash) # IsSome(flow.intraLedgerHash)
               /\ FromInvoice =>
                      /\ flow.paymentHash = Some(Val(initial.invoice).paymentHash)
                      /\ flow.intraLedgerHash = None
               /\ initial.op = "withoutInvoice" =>
                      /\ flow.intraLedgerHash = Some(generateIntraLedgerHash)
                      /\ flow.paymentHash = None
    /\ (Settled /\ builder.promise.error = None) =>
           paymentFromState([builder.promise.state EXCEPT
                                !.paymentHash = None, !.intraLedgerHash = None])
             = ErrorResult(InvalidLightningPaymentFlowStateError)

C11_Witness ==
    /\ TerminalFlow
    /\ initial.op = "withoutInvoice"
    /\ Val(result.flow).intraLedgerHash = Some(generateIntraLedgerHash)
    /\ Val(result.flow).paymentHash = None

\* C12 (as claimed): with a BTC sender wallet, a USD recipient wallet with
\* another id and no explicit USD amount, and an amount-carrying invoice to a
\* node that is not local, withInvoice -> withSenderWallet ->
\* withRecipientWallet -> withConversion -> withoutRoute yields a flow, not an
\* error: each step yields the next stage, and the flow has both amounts,
\* Lightning settlement and the ceiling-rounded USD fee of the BTC max fee.
ScenarioAInvoice ==
    /\ initial.op = "withInvoice"
    /\ Val(initial.invoice).destination = Some("pkRemote")
    /\ IsSome(Val(initial.invoice).paymentAmount)
    /\ Val(Val(initial.invoice).paymentAmount) > 0

ScenarioARecipientCall ==
    /\ ScenarioAInvoice
    /\ lastCall.op = "withRecipientWallet"
    /\ lastCall.before.stage = "WithSenderWallet"
    /\ lastCall.before.state.senderWalletCurrency = Some(Btc)
    /\ Val(lastCall.recipient).currency = Usd
    /\ Some(Val(lastCall.recipient).id) # lastCall.before.state.senderWalletId

ScenarioAState(state) ==
    /\ ScenarioAInvoice
    /\ state.senderWalletCurrency = Some(Btc)
    /\ state.recipientWalletCurrency = Some(Usd)

ScenarioAConversion ==
    /\ (ConversionCall /\ ScenarioAState(lastCall.before.state)) =>
           /\ builder.stage = "WithConversion"
           /\ builder.promise.status = "pending"
    /\ (lastCall.op = "usdFromBtc" /\ ScenarioAState(lastCall.before.promise.state)
            /\ IsSome(Val(lastCall.convertedAmount))
            /\ Val(Val(lastCall.convertedAmount)) > 0) =>
           builder.promise.error = None
    /\ (lastCall.op = "withoutRoute" /\ lastCall.before.promise.error = None
            /\ ScenarioAState(lastCall.before.promise.state)) =>
           /\ result.kind = "flow"
           /\ LET flow == Val(result.flow)
                   amount == Val(Val(initial.invoice).paymentAmount)
               IN  /\ flow.btcPaymentAmount = Some(amount)
                   /\ IsSome(flow.usdPaymentAmount)
                   /\ flow.settlementMethod = Some(Lightning)
                   /\ flow.btcProtocolAndBankFee = Some(maxProtocolAndBankFee(amount))
                   /\ flow.usdProtocolAndBankFee =
                          Some(divCeil(maxProtocolAndBankFee(amount)
                                           * Val(flow.usdPaymentAmount), amount))

C12_Original ==
    /\ (ScenarioARecipientCall /\ Val(lastCall.recipient).usdPaymentAmount = None) =>
           builder.stage = "WithRecipientWallet"
    /\ ScenarioAConversion

\* C12 (amended): in that chain withRecipientWallet yields the next stage only
\* when the recipient descriptor carries an explicit USD amount (without one
\* it yields the builder state error); with one, and a positive invoice
\* amount, the chain yields a flow with both amounts, Lightning settlement and
\* the ceiling-rounded USD fee of the BTC max-fee estimate.
C12_ScenarioA ==
    /\ ScenarioARecipientCall =>
           IF IsSome(Val(lastCall.recipient).usdPaymentAmount)
           THEN builder.stage = "WithRecipientWallet"
           ELSE builder = LPFBWithError(BuilderStateError(
                    "withRecipientWallet incorrect combination of usdPaymentAmount and uncheckedAmount"))
    /\ ScenarioAConversion

C12_Witness ==
    /\ lastCall.op = "withoutRoute"
    /\ ScenarioAState(lastCall.before.promise.state)
    /\ result.kind = "flow"
    /\ Val(Val(result.flow).btcProtocolAndBankFee) * Val(Val(result.flow).usdPaymentAmount)
           < Val(Val(result.flow).usdProtocolAndBankFee) * Val(Val(result.flow).btcPaymentAmount)

\* C13: withoutRecipientWallet yields the next stage exactly when settlement
\* is Lightning and the builder state error exactly when it is IntraLedger,
\* so no flow with IntraLedger settlement lacks a recipient wallet.
C13_WithoutRecipientWallet ==
    /\ (lastCall.op = "withoutRecipientWallet"
            /\ lastCall.before.stage = "WithSenderWallet") =>
           IF lastCall.before.state.settlementMethod = Some(Lightning)
           THEN builder = LPFBWithRecipientWallet(lastCall.before.state)
           ELSE /\ lastCall.before.state.settlementMethod = Some(IntraLedger)
                /\ builder = LPFBWithError(BuilderStateError(
                       "withoutRecipientWallet called but settlementMethod is IntraLedger"))
    /\ TerminalFlow =>
           ~ /\ Val(result.flow).settlementMethod = Some(IntraLedger)
             /\ Val(result.flow).recipientWalletId = None

C13_Witness ==
    /\ TerminalFlow
    /\ Val(result.flow).recipientWalletId = None
    /\ Val(result.flow).settlementMethod = Some(Lightning)

\* C14 (as claimed): for a recipient wallet id other than the sender's,
\* withRecipientWallet yields the builder state error exactly when the
\* recipient currency is USD and (an explicit USD amount is supplied) equals
\* (an unchecked amount is pending in the state); otherwise it succeeds and
\* carries the explicit USD amount if supplied, else the state's USD amount.
RecipientCall ==
    /\ lastCall.op = "withRecipientWallet"
    /\ lastCall.before.stage = "WithSenderWallet"
    /\ Some(Val(lastCall.recipient).id) # lastCall.before.state.senderWalletId

RecipientOutcome(hasUncheckedAmount) ==
    LET state == lastCall.before.state
        recipient == Val(lastCall.recipient)
    IN  IF /\ recipient.currency = Usd
           /\ IsSome(recipient.usdPaymentAmount) = hasUncheckedAmount
        THEN builder = LPFBWithError(BuilderStateError(
                 "withRecipientWallet incorrect combination of usdPaymentAmount and uncheckedAmount"))
        ELSE /\ builder.stage = "WithRecipientWallet"
             /\ builder.state.recipientWalletId = Some(recipient.id)
             /\ builder.state.recipientWalletCurrency = Some(recipient.currency)
             /\ builder.state.usdPaymentAmount =
                    IF IsSome(recipient.usdPaymentAmount)
                    THEN recipient.usdPaymentAmount
                    ELSE state.usdPaymentAmount

C15_WithInvoice ==
    lastCall.op = "withInvoice" =>
        LET invoice == Val(lastCall.invoice)
        IN  IF invoice.paymentAmount = None
            THEN builder = LPFBWithError(
                     BuilderStateError("withInvoice - paymentAmount missing"))
            ELSE /\ builder.stage = "WithInvoice"
                 /\ builder.state.btcPaymentAmount = invoice.paymentAmount
                 /\ builder.state.inputAmount = invoice.paymentAmount
                 /\ builder.state.paymentInitiationMethod = Some(Lightning)

C15_Witness ==
    /\ lastCall.op = "withInvoice"
    /\ Val(lastCall.invoice).paymentAmount = None
    /\ builder.stage = "Error"

\* C16: the skipProbeForDestination flag is true exactly when a pubkey of the
\* invoice's final hops is flagged (withInvoice, withNoAmountInvoice) and
\* false for withoutInvoice; the value fixed by the initial call is the one
\* every later stage holds, the accessor reports and the flow carries.
ExpectedSkipProbe ==
    /\ FromInvoice
    /\ \E pubkey \in Val(initial.invoice).finalHops : pubkey \in FlaggedPubkeys

C16_SkipProbe ==
    /\ (initial.op # "" /\ builder.stage \in
            {"WithInvoice", "WithSenderWallet", "WithRecipientWallet"}) =>
           builder.state.skipProbeForDestination = Some(ExpectedSkipProbe)
    /\ (Settled /\ builder.promise.error = None) =>
           builder.promise.state.skipProbeForDestination = Some(ExpectedSkipProbe)
    /\ (lastCall.op = "skipProbeForDestination" /\ result.kind = "value") =>
           result.value = Some(Some(ExpectedSkipProbe))
    /\ TerminalFlow =>
           Val(result.flow).skipProbeForDestination = Some(ExpectedSkipProbe)

C16_Witness ==
    /\ lastCall.op = "skipProbeForDestination"
    /\ initial.op = "withNoAmountInvoice"
    /\ Val(initial.invoice).finalHops = {"pkFlagged", "pkHop"}
    /\ result.value = Some(Some(TRUE))

\* C17: withConversion takes the no-conversion branch exactly when the sender
\* is BTC with Lightning settlement or sender and recipient currencies are
\* equal; there it invokes no rate source when both amounts and both fees are
\* known, and otherwise only the mid-market source (usdFromBtc when the BTC
\* side is known, btcFromUsd when only the USD side is) and never a hedge;
\* outside that branch it never invokes the mid-market source.
SameCurrencyOrBtcLightning(state) ==
    \/ /\ state.senderWalletCurrency = Some(Btc)
       /\ state.settlementMethod = Some(Lightning)
    \/ state.senderWalletCurrency = state.recipientWalletCurrency

BtcSideKnown(state) ==
    IsSome(state.btcPaymentAmount) /\ IsSome(state.btcProtocolAndBankFee)

UsdSideKnown(state) ==
    IsSome(state.usdPaymentAmount) /\ IsSome(state.usdProtocolAndBankFee)

RateCall(source, fn) == [source |-> source, fn |-> fn]

C17_NoConversionBranch ==
    ConversionCall =>
        LET state == lastCall.before.state
        IN  IF SameCurrencyOrBtcLightning(state)
            THEN /\ builder.stage = "WithConversion"
                 /\ calls = IF BtcSideKnown(state) /\ UsdSideKnown(state)
                               THEN <<>>
                               ELSE IF BtcSideKnown(state)
                                    THEN <<RateCall("mid", "usdFromBtc")>>
                                    ELSE <<RateCall("mid", "btcFromUsd")>>
                 /\ (~BtcSideKnown(state)) => UsdSideKnown(state)
            ELSE \A i \in 1..Len(calls) : calls[i].source # "mid"

C17_Witness ==
    /\ ConversionCall
    /\ lastCall.before.state.senderWalletCurrency = Some(Usd)
    /\ lastCall.before.state.recipientWalletCurrency = Some(Usd)
    /\ calls = <<RateCall("mid", "btcFromUsd")>>

\* C18: in the conversion-required branch, when the recipient is USD and both
\* amounts and both fees are known, withConversion invokes no rate source and
\* keeps the amounts and fees; otherwise it invokes exactly the directional
\* hedge (hedgeBuyUsd for a BTC sender, hedgeSellUsd for a USD sender), once,
\* and never the mid-market source.
C18_ConversionRequiredBranch ==
    (ConversionCall /\ ~SameCurrencyOrBtcLightning(lastCall.before.state)) =>
        LET state == lastCall.before.state
            hedge == IF state.senderWalletCurrency = Some(Btc)
                     THEN "hedgeBuyUsd" ELSE "hedgeSellUsd"
        IN  IF /\ state.recipientWalletCurrency = Some(Usd)
               /\ BtcSideKnown(state) /\ UsdSideKnown(state)
            THEN /\ calls = <<>>
                 /\ builder = LPFBWithConversion(ResolvedPromise(
                        [state EXCEPT !.createdAt = Some(Val(lastCall.now))]))
            ELSE /\ builder.stage = "WithConversion"
                 /\ builder.promise.status = "pending"
                 /\ Len(calls) = 1
                 /\ calls[1].source = hedge
                 /\ calls[1].fn = IF BtcSideKnown(state) THEN "usdFromBtc" ELSE "btcFromUsd"

C18_Witness ==
    /\ ConversionCall
    /\ lastCall.before.state.senderWalletCurrency = Some(Usd)
    /\ lastCall.before.state.recipientWalletCurrency = Some(Btc)
    /\ calls = <<RateCall("hedgeSellUsd", "usdFromBtc")>>

C18_ShortcutWitness ==
    /\ ConversionCall
    /\ ~SameCurrencyOrBtcLightning(lastCall.before.state)
    /\ calls = <<>>

\* C19: when the conversion resolved successfully, the flow emitted by
\* withRoute has feeFromRawRoute(rawRoute) as BTC fee, the ceiling-rounded
\* conversion of that fee by the ratio of the flow's own USD and BTC payment
\* amounts as USD fee, and the given outgoing node pubkey and route; when
\* feeFromRawRoute fails or an amount is zero, withRoute returns that error
\* and no flow.
RouteCall ==
    /\ lastCall.op = "withRoute"
    /\ lastCall.before.stage = "WithConversion"
    /\ lastCall.before.promise.error = None

C19_WithRoute ==
    RouteCall =>
        LET state == lastCall.before.promise.state
            rawRoute == Val(lastCall.rawRoute)
            zeroAmount == Val(state.btcPaymentAmount) = 0 \/ Val(state.usdPaymentAmount) = 0
            feeFails == feeFromRawRoute(rawRoute) = None
        IN  IF zeroAmount \/ feeFails
            THEN /\ result.kind = "error"
                 /\ result.flow = None
                 /\ result.error \in
                        (IF zeroAmount
                         THEN {Some(InvalidZeroAmountPriceRatioInputError)} ELSE {})
                          \cup (IF feeFails THEN {Some(FeeError)} ELSE {})
            ELSE /\ result.kind = "flow"
                 /\ LET flow == Val(result.flow)
                     IN  /\ flow.btcPaymentAmount = state.btcPaymentAmount
                         /\ flow.usdPaymentAmount = state.usdPaymentAmount
                         /\ flow.btcProtocolAndBankFee = feeFromRawRoute(rawRoute)
                         /\ flow.usdProtocolAndBankFee =
                                Some(divCeil(Val(feeFromRawRoute(rawRoute))
                                                 * Val(flow.usdPaymentAmount),
                                             Val(flow.btcPaymentAmount)))
                         /\ flow.outgoingNodePubkey = lastCall.pubkey
                         /\ flow.cachedRoute = lastCall.rawRoute

C19_Witness ==
    /\ RouteCall
    /\ result.kind = "flow"
    /\ Val(result.flow).btcProtocolAndBankFee
           # lastCall.before.promise.state.btcProtocolAndBankFee
    /\ Val(result.flow).usdProtocolAndBankFee
           # lastCall.before.promise.state.usdProtocolAndBankFee
    /\ Val(Val(result.flow).btcProtocolAndBankFee) * Val(Val(result.flow).usdPaymentAmount)
           < Val(Val(result.flow).usdProtocolAndBankFee) * Val(Val(result.flow).btcPaymentAmount)

C19_ZeroAmountWitness ==
    /\ RouteCall
    /\ result = ErrorResult(InvalidZeroAmountPriceRatioInputError)

\* C20: after a successful withSenderWallet the fee in the currency of the
\* known payment amount is the fixed intra-ledger fee when settlement is
\* IntraLedger and maxProtocolAndBankFee(payment amount) when it is
\* Lightning; the intra-ledger fees attached by the initial call are kept.
SenderCall ==
    /\ lastCall.op = "withSenderWallet"
    /\ lastCall.before.stage = "WithInvoice"
    /\ builder.stage = "WithSenderWallet"

C20_SenderWalletFee ==
    SenderCall =>
        LET before == lastCall.before.state
            state == builder.state
            inUsd == /\ IsSome(before.uncheckedAmount)
                     /\ Val(lastCall.senderWallet).currency = Usd
            amount == IF inUsd THEN state.usdPaymentAmount ELSE state.btcPaymentAmount
            fee == IF inUsd THEN state.usdProtocolAndBankFee
                            ELSE state.btcProtocolAndBankFee
        IN  /\ IsSome(amount)
            /\ state.settlementMethod = Some(IntraLedger) =>
                   /\ fee = Some(IF inUsd THEN intraLedgerFees.usd ELSE intraLedgerFees.btc)
                   /\ state.btcProtocolAndBankFee = Some(intraLedgerFees.btc)
                   /\ state.usdProtocolAndBankFee = Some(intraLedgerFees.usd)
            /\ state.settlementMethod = Some(Lightning) =>
                   fee = Some(maxProtocolAndBankFee(Val(amount)))
            /\ state.settlementMethod = before.settlementMethod
            /\ state.settlementMethod \in {Some(IntraLedger), Some(Lightning)}

C20_Witness ==
    /\ SenderCall
    /\ builder.state.settlementMethod = Some(IntraLedger)
    /\ builder.state.usdPaymentAmount = Some(2)
    /\ builder.state.usdProtocolAndBankFee = Some(intraLedgerFees.usd)
    /\ maxProtocolAndBankFee(2) # intraLedgerFees.usd

\* C21: when an unchecked amount is pending, withSenderWallet validates it
\* with the validator of the sender wallet's currency; an invalid amount gives
\* the error stage carrying the validation error, and a valid one becomes the
\* payment amount and input amount in the sender's currency only, the other
\* currency's payment amount staying unset.
UncheckedSenderCall ==
    /\ lastCall.op = "withSenderWallet"
    /\ lastCall.before.stage = "WithInvoice"
    /\ IsSome(lastCall.before.state.uncheckedAmount)

C21_UncheckedAmountValidation ==
    UncheckedSenderCall =>
        LET uncheckedAmount == Val(lastCall.before.state.uncheckedAmount)
            currency == Val(lastCall.senderWallet).currency
            checked == IF currency = Btc
                       THEN checkedToBtcPaymentAmount(uncheckedAmount)
                       ELSE checkedToUsdPaymentAmount(uncheckedAmount)
        IN  IF checked = None
            THEN builder = LPFBWithError(ValidationError)
            ELSE /\ builder.stage = "WithSenderWallet"
                 /\ builder.state.senderWalletCurrency = Some(currency)
                 /\ builder.state.inputAmount = Some(uncheckedAmount)
                 /\ builder.state.btcPaymentAmount =
                        IF currency = Btc THEN Some(uncheckedAmount) ELSE None
                 /\ builder.state.usdPaymentAmount =
                        IF currency = Usd THEN Some(uncheckedAmount) ELSE None

C21_Witness ==
    /\ UncheckedSenderCall
    /\ Val(lastCall.senderWallet).currency = Usd
    /\ builder.stage = "WithSenderWallet"
    /\ builder.state.usdPaymentAmount = Some(2)
    /\ builder.state.btcPaymentAmount = None

C21_ErrorWitness ==
    /\ UncheckedSenderCall
    /\ Val(lastCall.before.state.uncheckedAmount) < 0
    /\ builder = LPFBWithError(ValidationError)

\* C22: each limits check uses a USD volume unchanged and converts a BTC
\* volume to USD through the price ratio before comparing; when that
\* conversion fails, or the ceiling cannot be constructed as a USD amount,
\* the check returns that error: neither true nor a limits-exceeded error.
NormalizedVolume ==
    IF limits.walletVolume.currency = Usd
    THEN limits.walletVolume.amount
    ELSE (limits.walletVolume.amount * limits.priceRatio.usd) \div limits.priceRatio.btc

ConversionFails ==
    limits.walletVolume.currency = Btc /\ limits.priceRatio.fails

CeilingFails == ~CheckedCeiling.isInteger

C22_LimitsNormalization ==
    limits.check # "" =>
        IF ConversionFails \/ CeilingFails
        THEN /\ limits.outcome.kind = "error"
             /\ limits.outcome # TrueResult
             /\ Val(limits.outcome.error) \notin LimitsExceededErrors
             /\ limits.outcome.error \in
                    (IF ConversionFails THEN {Some(PriceRatioConversionError)} ELSE {})
                      \cup (IF CeilingFails THEN {Some(InvalidPaymentAmountError)} ELSE {})
        ELSE limits.outcome =
                 IF CheckedCeiling.value - NormalizedVolume < limits.amount
                 THEN ErrorResult(CheckedError)
                 ELSE TrueResult

C22_Witness ==
    /\ limits.check = "checkTwoFA"
    /\ limits.walletVolume.currency = Btc
    /\ limits.priceRatio.fails
    /\ limits.twoFALimits.threshold.isInteger
    /\ limits.twoFALimits.threshold.value < limits.amount
    /\ limits.outcome = ErrorResult(PriceRatioConversionError)

C22_ConvertedWitness ==
    /\ limits.check = "checkIntraledger"
    /\ limits.walletVolume.currency = Btc
    /\ ~limits.priceRatio.fails
    /\ CheckedCeiling.isInteger
    /\ NormalizedVolume < limits.walletVolume.amount
    /\ CheckedCeiling.value - NormalizedVolume >= limits.amount
    /\ CheckedCeiling.value - limits.walletVolume.amount < limits.amount
    /\ limits.outcome = TrueResult

\* C23: when the rate source consulted by withConversion answers with a
\* dealer-price-service error, or with a zero amount from which no price
\* ratio can be built, every terminal and accessor call on the resulting
\* stage returns that error and no flow is emitted.
ConversionOps ==
    {"withRoute", "withoutRoute", "btcPaymentAmount", "usdPaymentAmount",
     "skipProbeForDestination", "isIntraLedger", "isTradeIntraAccount"}

RateSourceAnswered ==
    /\ lastCall.op \in {"usdFromBtc", "btcFromUsd"}
    /\ lastCall.before.stage = "WithConversion"

CallOnFailedConversion ==
    /\ lastCall.op \in ConversionOps
    /\ lastCall.before.stage = "WithConversion"
    /\ IsSome(lastCall.before.promise.error)

C23_ConversionFailurePropagates ==
    /\ RateSourceAnswered =>
           LET convertedAmount == Val(lastCall.convertedAmount)
           IN  /\ convertedAmount = None =>
                      /\ builder.stage = "WithConversion"
                      /\ builder.promise.status = "settled"
                      /\ builder.promise.error = Some(DealerPriceServiceError)
               /\ convertedAmount = Some(0) =>
                      /\ builder.stage = "WithConversion"
                      /\ builder.promise.status = "settled"
                      /\ builder.promise.error = Some(InvalidZeroAmountPriceRatioInputError)
    /\ CallOnFailedConversion =>
           /\ result.kind = "error"
           /\ result.error = lastCall.before.promise.error
           /\ result.flow = None
           /\ result.value = None
           /\ builder = lastCall.before
           /\ Len(calls) = 1

C23_Witness ==
    /\ CallOnFailedConversion
    /\ lastCall.op = "usdPaymentAmount"
    /\ calls = <<RateCall("hedgeSellUsd", "usdFromBtc")>>
    /\ result = ErrorResult(InvalidZeroAmountPriceRatioInputError)

C23_DealerWitness ==
    /\ CallOnFailedConversion
    /\ lastCall.op = "withRoute"
    /\ IsSome(Val(lastCall.rawRoute).fee)
    /\ result = ErrorResult(DealerPriceServiceError)

\* C24: invoking a transition on a stage never changes that stage: after any
\* call the stage it was invoked on is what it was before, and a transition
\* invoked on the same stage again gives the result it gives on the
\* untouched stage, whatever the earlier call returned (a withRecipientWallet
\* that failed as a self-payment is followed, on the same WithSenderWallet
\* stage, by a successful withRecipientWallet with another wallet).
TransitionOps ==
    {"withSenderWallet", "withoutRecipientWallet", "withRecipientWallet",
     "withConversion"}

NotACall == {"", "usdFromBtc", "btcFromUsd", "callAgain"}

DirectOutcome ==
    LET state == lastCall.before.state
    IN  IF lastCall.op = "withSenderWallet"
        THEN withSenderWallet(state, Val(lastCall.senderWallet))
        ELSE IF lastCall.op = "withoutRecipientWallet"
        THEN withoutRecipientWallet(state)
        ELSE IF lastCall.op = "withRecipientWallet"
        THEN withRecipientWallet(state, Val(lastCall.recipient))
        ELSE withConversion(state, Val(lastCall.now))

ExpectedSettlementMethod ==
    IF /\ FromInvoice
       /\ IsSome(Val(initial.invoice).destination)
       /\ Val(Val(initial.invoice).destination) \notin LocalNodeIds
    THEN Lightning
    ELSE IntraLedger

ExpectedInitiationMethod == IF FromInvoice THEN Lightning ELSE IntraLedger

MethodsAsResolved(state) ==
    /\ state.settlementMethod = Some(ExpectedSettlementMethod)
    /\ state.paymentInitiationMethod = Some(ExpectedInitiationMethod)

C25_MethodsFixed ==
    /\ builder.stage \in {"WithInvoice", "WithSenderWallet", "WithRecipientWallet"} =>
           MethodsAsResolved(builder.state)
    /\ (builder.stage = "WithConversion" /\ builder.promise.error = None) =>
           MethodsAsResolved(builder.promise.state)
    /\ TerminalFlow => MethodsAsResolved(Val(result.flow))
    /\ (lastCall.op = "isIntraLedger" /\ result.kind = "value") =>
           /\ lastCall.before.stage \in {"WithSenderWallet", "WithConversion"}
           /\ result.value = Some(ExpectedSettlementMethod = IntraLedger)

C25_Witness ==
    /\ TerminalFlow
    /\ initial.op = "withInvoice"
    /\ Val(initial.invoice).destination = Some("pkLocal")
    /\ Val(result.flow).paymentInitiationMethod = Some(Lightning)
    /\ Val(result.flow).settlementMethod = Some(IntraLedger)

C25_AccessorWitness ==
    /\ lastCall.op = "isIntraLedger"
    /\ lastCall.before.stage = "WithConversion"
    /\ initial.op = "withNoAmountInvoice"
    /\ Val(initial.invoice).destination = Some("pkLocal")
    /\ result = ValueResult(TRUE)

\* C26: isTradeIntraAccount on a WithConversion stage whose conversion
\* resolved returns true exactly when the sender account id equals the
\* recipient account id and the sender currency differs from the recipient
\* currency; it is false for every chain built with withoutRecipientWallet
\* and for same-currency transfers inside one account.
TradeCall ==
    /\ lastCall.op = "isTradeIntraAccount"
    /\ lastCall.before.stage = "WithConversion"
    /\ lastCall.before.promise.error = None

C26_IsTradeIntraAccount ==
    TradeCall =>
        LET state == lastCall.before.promise.state
            sameAccount == state.senderAccountId = state.recipientAccountId
            sameCurrency == state.senderWalletCurrency = state.recipientWalletCurrency
        IN  /\ result.kind = "value"
            /\ result.value = Some(sameAccount /\ ~sameCurrency)
            /\ state.recipientWalletId = None => result.value = Some(FALSE)
            /\ (sameAccount /\ sameCurrency) => result.value = Some(FALSE)
            /\ IsSome(state.senderAccountId)
            /\ IsSome(state.senderWalletCurrency)

C26_Witness ==
    /\ TradeCall
    /\ lastCall.before.promise.state.senderAccountId = Some("a1")
    /\ lastCall.before.promise.state.recipientAccountId = Some("a1")
    /\ lastCall.before.promise.state.senderWalletCurrency = Some(Usd)
    /\ lastCall.before.promise.state.recipientWalletCurrency = Some(Btc)
    /\ result = ValueResult(TRUE)

C26_NoRecipientWitness ==
    /\ TradeCall
    /\ lastCall.before.promise.state.recipientWalletId = None
    /\ result = ValueResult(FALSE)

C26_SameCurrencyWitness ==
    /\ TradeCall
    /\ lastCall.before.promise.state.senderAccountId
           = lastCall.before.promise.state.recipientAccountId
    /\ lastCall.before.promise.state.senderWalletCurrency
           = lastCall.before.promise.state.recipientWalletCurrency
    /\ result = ValueResult(FALSE)

\* C27: one withConversion invokes at most one rate-source function, at most
\* once; every terminal or accessor call made afterwards on the resulting
\* stage, in any number and order, leaves the resolved state or error and the
\* rate-source invocations as they are, and returns the amounts (or the
\* error) of that one resolution.
ObservedFromResolution ==
    (lastCall.op \in ConversionOps /\ lastCall.before.stage = "WithConversion") =>
        LET promise == lastCall.before.promise
        IN  /\ promise.status = "settled"
            /\ builder = lastCall.before
            /\ IsSome(promise.error) => result = ErrorResult(Val(promise.error))
            /\ (promise.error = None /\ lastCall.op = "btcPaymentAmount") =>
                   result = ValueResult(promise.state.btcPaymentAmount)
            /\ (promise.error = None /\ lastCall.op = "usdPaymentAmount") =>
                   result = ValueResult(promise.state.usdPaymentAmount)
            /\ (promise.error = None /\ result.kind = "flow") =>
                   /\ Val(result.flow).btcPaymentAmount = promise.state.btcPaymentAmount
                   /\ Val(result.flow).usdPaymentAmount = promise.state.usdPaymentAmount

OneInvocation ==
    /\ Len(calls) <= 1
    /\ (builder.stage = "WithConversion" /\ builder.promise.status = "pending") =>
           calls = <<RateCall(builder.promise.source, builder.promise.fn)>>

ResolvedOnce ==
    (Settled /\ lastCall'.op # "callAgain") =>
        /\ builder' = builder
        /\ calls' = calls
        /\ lastCall'.op \in ConversionOps
        /\ lastCall'.before = builder

C27_SingleResolution ==
    /\ [](OneInvocation /\ ObservedFromResolution)
    /\ [][ResolvedOnce]_vars

C27_Witness ==
    /\ lastCall.op = "usdPaymentAmount"
    /\ lastCall.before.stage = "WithConversion"
    /\ builder = lastCall.before
    /\ calls = <<RateCall("mid", "usdFromBtc")>>
    /\ result.kind = "value"
    /\ result = ValueResult(builder.promise.state.usdPaymentAmount)
    /\ result.value # Some(builder.promise.state.btcPaymentAmount)

====
